---------------------------- MODULE Spec2Model ----------------------------
(***************************************************************************)
(* govault: field-level encryption for an ORM.                             *)
(*                                                                         *)
(* Strings and byte slices are sequences of byte values 0..255 (a Go       *)
(* string is a byte sequence).  The token format, base64 (Go's             *)
(* base64.StdEncoding: padded, non-strict, CR/LF ignored on decode) and    *)
(* strings.SplitN are modelled byte for byte.  AES-256-GCM is modelled as  *)
(* an AEAD with the interface the code relies on: Seal appends a 16-byte   *)
(* tag, Open panics on a nonce whose length is not NonceSize, fails on a   *)
(* ciphertext shorter than the tag or whose tag does not verify, and       *)
(* otherwise returns the plaintext.                                        *)
(***************************************************************************)
EXTENDS Integers, Sequences, FiniteSets, TLC

VARIABLES g, tok, res, q, obj, table, ret, dbs

vars == <<g, tok, res, q, obj, table, ret, dbs>>

\* the state of the ORM adapter
ormVars == <<q, obj, table, ret, dbs>>

-----------------------------------------------------------------------------
(* Bounds of the exploration *)

\* plaintexts are the prefixes of SamplePlain up to this length
MaxPlainLen == 3
\* number of distinct values rand.Read may return for a nonce
MaxNonces == 2

\* rows the table holds at most
MaxRows == 1

-----------------------------------------------------------------------------
(* Program constants *)

\* len(keyBytes) != 32
KeySize == 32
\* key.cipher.NonceSize() of cipher.NewGCM
NonceSize == 12
\* the authentication tag cipher.NewGCM's Seal appends
TagSize == 16
\* the separator "|"
Pipe == 124
\* base64 padding character '='
PadChar == 61

-----------------------------------------------------------------------------
(* Bytes *)

RECURSIVE XorBits(_, _, _)
XorBits(a, b, n) ==
    IF n = 0 THEN 0
    ELSE ((a + b) % 2) + 2 * XorBits(a \div 2, b \div 2, n - 1)

Xor(a, b) == XorBits(a, b, 8)

RECURSIVE Pow2(_)
Pow2(n) == IF n = 0 THEN 1 ELSE 2 * Pow2(n - 1)

\* the byte c with bit b (0..7) inverted
FlipBit(c, b) == Xor(c, Pow2(b))

RECURSIVE Concat(_)
Concat(ss) == IF ss = <<>> THEN <<>> ELSE Head(ss) \o Concat(Tail(ss))

\* index of the first occurrence of byte c in s, 0 when absent
IndexFrom(s, c, i) ==
    IF \A k \in i..Len(s) : s[k] # c THEN 0
    ELSE CHOOSE k \in i..Len(s) :
             s[k] = c /\ \A j \in i..(k - 1) : s[j] # c

IndexByte(s, c) == IndexFrom(s, c, 1)

\* Contains that reports a match for every string
ContainsAlways(s, c) == TRUE

\* strings.Contains(s, "|")
Contains(s, c) == IndexByte(s, c) # 0

\* strings.Count(s, "|")
Count(s, c) == Cardinality({i \in 1..Len(s) : s[i] = c})

\* strings.SplitN(s, "|", n) for n > 0
RECURSIVE SplitN(_, _, _)
SplitN(s, sep, n) ==
    LET i == IndexByte(s, sep) IN
    IF n <= 1 \/ i = 0 THEN <<s>>
    ELSE <<SubSeq(s, 1, i - 1)>> \o SplitN(SubSeq(s, i + 1, Len(s)), sep, n - 1)

\* lexicographic byte order, the order of sort.Strings
RECURSIVE StrLess(_, _)
StrLess(a, b) ==
    IF b = <<>> THEN FALSE
    ELSE IF a = <<>> THEN TRUE
    ELSE IF Head(a) # Head(b) THEN Head(a) < Head(b)
    ELSE StrLess(Tail(a), Tail(b))

\* the elements of the set S of strings as a sorted sequence
RECURSIVE SortStrings(_)
SortStrings(S) ==
    IF S = {} THEN <<>>
    ELSE LET m == CHOOSE x \in S : \A y \in S \ {x} : StrLess(x, y)
         IN <<m>> \o SortStrings(S \ {m})

-----------------------------------------------------------------------------
(* encoding/base64, StdEncoding *)

\* the alphabet "ABC...Zabc...z0123456789+/" : 6-bit value -> character
B64Char(v) ==
    IF v < 26 THEN 65 + v
    ELSE IF v < 52 THEN 97 + (v - 26)
    ELSE IF v < 62 THEN 48 + (v - 52)
    ELSE IF v = 62 THEN 43 ELSE 47

\* decodeMap: character -> 6-bit value, 255 for a character outside the alphabet
B64Val(c) ==
    IF c >= 65 /\ c <= 90 THEN c - 65
    ELSE IF c >= 97 /\ c <= 122 THEN c - 97 + 26
    ELSE IF c >= 48 /\ c <= 57 THEN c - 48 + 52
    ELSE IF c = 43 THEN 62
    ELSE IF c = 47 THEN 63
    ELSE 255

\* EncodeToString
RECURSIVE B64Encode(_)
B64Encode(b) ==
    IF Len(b) = 0 THEN <<>>
    ELSE IF Len(b) = 1 THEN
        <<B64Char(b[1] \div 4), B64Char((b[1] % 4) * 16), PadChar, PadChar>>
    ELSE IF Len(b) = 2 THEN
        <<B64Char(b[1] \div 4),
          B64Char((b[1] % 4) * 16 + b[2] \div 16),
          B64Char((b[2] % 16) * 4), PadChar>>
    ELSE
        <<B64Char(b[1] \div 4),
          B64Char((b[1] % 4) * 16 + b[2] \div 16),
          B64Char((b[2] % 16) * 4 + b[3] \div 64),
          B64Char(b[3] % 64)>> \o B64Encode(SubSeq(b, 4, Len(b)))

\* '\r' and '\n' are skipped wherever they occur
StripNewlines(s) == SelectSeq(s, LAMBDA c : c # 10 /\ c # 13)

\* the 6-bit values of the k-th group of four characters of s
Quantum(s, k) == [i \in 1..4 |-> B64Val(s[4 * (k - 1) + i])]

\* the three bytes a group of four 6-bit values stands for
QuantumBytes(v) ==
    <<v[1] * 4 + v[2] \div 16, (v[2] % 16) * 16 + v[3] \div 4,
      (v[3] % 4) * 64 + v[4]>>

\* decodeQuantum over the input without newlines: [ok, bytes].
\* Padding is accepted only as "xx==" or "xxx=" ending the input; the unused
\* low bits of the last character are not checked (the encoding is not Strict).
B64DecodeQuanta(s) ==
    LET n == Len(s) \div 4
        bad == [ok |-> FALSE, bytes |-> <<>>]
        whole == [i \in 1..(3 * (n - 1)) |->
                     QuantumBytes(Quantum(s, ((i - 1) \div 3) + 1))[((i - 1) % 3) + 1]]
        v == Quantum(s, n)
    IN
    IF Len(s) = 0 THEN [ok |-> TRUE, bytes |-> <<>>]
    ELSE IF Len(s) % 4 # 0 THEN bad
    ELSE IF \E k \in 1..(n - 1) : \E i \in 1..4 : Quantum(s, k)[i] = 255 THEN bad
    ELSE IF v[1] = 255 \/ v[2] = 255 THEN bad
    ELSE IF v[3] = 255 THEN
        IF s[4 * n - 1] = PadChar /\ s[4 * n] = PadChar
        THEN [ok |-> TRUE, bytes |-> whole \o <<v[1] * 4 + v[2] \div 16>>]
        ELSE bad
    ELSE IF v[4] = 255 THEN
        IF s[4 * n] = PadChar
        THEN [ok |-> TRUE,
              bytes |-> whole \o <<v[1] * 4 + v[2] \div 16,
                                   (v[2] % 16) * 16 + v[3] \div 4>>]
        ELSE bad
    ELSE [ok |-> TRUE, bytes |-> whole \o QuantumBytes(v)]

\* DecodeString
B64Decode(s) == B64DecodeQuanta(StripNewlines(s))

-----------------------------------------------------------------------------
(* crypto/cipher AEAD (AES-256-GCM) *)

\* the sum of the bytes of s from index i on, each weighted by its position,
\* eight bytes a step
RECURSIVE WeightedSum(_, _, _)
WeightedSum(s, i, j) ==
    IF i > Len(s) THEN 0
    ELSE
      LET w(k) == IF k > Len(s) THEN 0 ELSE s[k] * (2 * (k + j) + 1)
      IN (((w(i) + w(i + 1)) + (w(i + 2) + w(i + 3)))
            + ((w(i + 4) + w(i + 5)) + (w(i + 6) + w(i + 7)))
            + WeightedSum(s, i + 8, j)) % 256

\* the counter-mode keystream byte i under a key and a nonce
Keystream(key, nonce, i) ==
    (key[((i - 1) % Len(key)) + 1] * 7
       + nonce[((i - 1) % Len(nonce)) + 1] * 13 + i * 29) % 256

\* the authentication tag over key, nonce and ciphertext body: every single
\* byte changed in any of them changes every byte of the tag
Tag(key, nonce, body) ==
    LET keyed == (WeightedSum(key, 1, 0) + WeightedSum(nonce, 1, 1)
                    + 17 * Len(body)) % 256
    IN [j \in 1..TagSize |-> (keyed + WeightedSum(body, 1, j) + 101 * j) % 256]

\* key.cipher.Seal(nil, nonce, plaintext, nil): ciphertext || tag
Seal(key, nonce, plaintext) ==
    LET body == [i \in 1..Len(plaintext) |->
                    Xor(plaintext[i], Keystream(key, nonce, i))]
    IN body \o Tag(key, nonce, body)

\* Open without the comparison of the tag: whatever carries 16 trailing bytes
\* is deciphered
OpenNoAuth(key, nonce, ciphertext) ==
    IF Len(nonce) # NonceSize THEN [kind |-> "panic", val |-> <<>>]
    ELSE IF Len(ciphertext) < TagSize THEN [kind |-> "err", val |-> <<>>]
    ELSE
      LET n == Len(ciphertext) - TagSize
          body == SubSeq(ciphertext, 1, n)
      IN [kind |-> "ok",
          val |-> [i \in 1..n |-> Xor(body[i], Keystream(key, nonce, i))]]

\* key.cipher.Open(nil, nonce, ciphertext, nil): [kind, val] with kind
\* "panic" (incorrect nonce length), "err" (message authentication failed)
\* or "ok"
Open(key, nonce, ciphertext) ==
    IF Len(nonce) # NonceSize THEN [kind |-> "panic", val |-> <<>>]
    ELSE IF Len(ciphertext) < TagSize THEN [kind |-> "err", val |-> <<>>]
    ELSE
      LET n == Len(ciphertext) - TagSize
          body == SubSeq(ciphertext, 1, n)
          tag == SubSeq(ciphertext, n + 1, Len(ciphertext))
      IN IF Tag(key, nonce, body) # tag THEN [kind |-> "err", val |-> <<>>]
         ELSE [kind |-> "ok",
               val |-> [i \in 1..n |-> Xor(body[i], Keystream(key, nonce, i))]]

-----------------------------------------------------------------------------
(* Results and errors *)

\* A Go error value: which fmt.Errorf produced it and the values formatted
\* into its text (a key ID, the available key IDs, a field name).
NoErr == [code |-> "nil", keyID |-> <<>>, avail |-> <<>>, field |-> ""]

MkErr(code, keyID, avail) ==
    [code |-> code, keyID |-> keyID, avail |-> avail, field |-> ""]

\* fmt.Errorf("failed to ... field %s: %w", fieldType.Name, err)
WrapField(name, e) == [e EXCEPT !.field = name]

Ok(v) == [kind |-> "ok", val |-> v, err |-> NoErr]

Fail(e) == [kind |-> "err", val |-> <<>>, err |-> e]

\* a run-time panic unwinding through the caller
Panic == [kind |-> "panic", val |-> <<>>, err |-> NoErr]

\* the error taxonomy each fmt.Errorf belongs to
ErrorClass(e) ==
    CASE e.code = "nil" -> "none"
      [] e.code \in {"no_keys", "default_required"} -> "NoKeysProvided"
      [] e.code = "default_not_found" -> "DefaultKeyNotFound"
      [] e.code = "bad_key_length" -> "InvalidKeyLength"
      [] e.code = "key_not_found" -> "UnknownKey"
      [] e.code \in {"invalid_format", "decode_nonce", "decode_ciphertext"}
            -> "MalformedToken"
      [] e.code = "decrypt_failed" -> "DecryptionFailed"
      [] OTHER -> "other"

-----------------------------------------------------------------------------
(* Key registry *)

NoRegistry(e) == [ok |-> FALSE, keys |-> <<>>, defaultKey |-> <<>>, err |-> e]

\* newKey
newKey(keyID, keyBytes) ==
    IF Len(keyBytes) # KeySize
    THEN Fail(MkErr("bad_key_length", <<>>, <<>>))
    ELSE Ok([ID |-> keyID, Value |-> keyBytes])

\* New that leaves out the keys newKey rejects
NewSkippingBadKeys(config) ==
    LET ids == DOMAIN config.Keys
        good == {k \in ids : newKey(k, config.Keys[k]).kind = "ok"}
    IN
    IF ids = {} THEN {NoRegistry(MkErr("no_keys", <<>>, <<>>))}
    ELSE IF config.DefaultKeyID = <<>>
        THEN {NoRegistry(MkErr("default_required", <<>>, <<>>))}
    ELSE IF config.DefaultKeyID \notin good
        THEN {NoRegistry(MkErr("default_not_found", config.DefaultKeyID, <<>>))}
    ELSE {[ok |-> TRUE,
           keys |-> [k \in good |-> newKey(k, config.Keys[k]).val],
           defaultKey |-> config.DefaultKeyID,
           err |-> NoErr]}

\* New(config): the registries and errors construction may return.  The keys
\* are initialised in map-iteration order, so with several bad keys the
\* error names any one of them.
New(config) ==
    LET ids == DOMAIN config.Keys IN
    IF ids = {} THEN {NoRegistry(MkErr("no_keys", <<>>, <<>>))}
    ELSE IF config.DefaultKeyID = <<>>
        THEN {NoRegistry(MkErr("default_required", <<>>, <<>>))}
    ELSE IF config.DefaultKeyID \notin ids
        THEN {NoRegistry(MkErr("default_not_found", config.DefaultKeyID, <<>>))}
    ELSE
      LET bad == {k \in ids : newKey(k, config.Keys[k]).kind # "ok"} IN
      IF bad # {}
      THEN {NoRegistry(MkErr("bad_key_length", k, <<>>)) : k \in bad}
      ELSE {[ok |-> TRUE,
             keys |-> [k \in ids |-> newKey(k, config.Keys[k]).val],
             defaultKey |-> config.DefaultKeyID,
             err |-> NoErr]}

\* GetKeyIDs
GetKeyIDs(reg) == SortStrings(DOMAIN reg.keys)

\* GetDefaultKeyID
GetDefaultKeyID(reg) == reg.defaultKey

\* GetKeyIDFromEncryptedData that takes the key ID of well-formed tokens only
GetKeyIDOfWellFormed(encryptedData) ==
    LET parts == SplitN(encryptedData, Pipe, 3) IN
    IF Len(parts) # 3
    THEN Fail(MkErr("invalid_format", <<>>, <<>>))
    ELSE Ok(parts[1])

\* GetKeyIDFromEncryptedData
GetKeyIDFromEncryptedData(encryptedData) ==
    IF encryptedData = <<>> THEN Ok(<<>>)
    ELSE Ok(SplitN(encryptedData, Pipe, 2)[1])

-----------------------------------------------------------------------------
(* Encrypt / Decrypt *)

\* targetKeyID of Encrypt; keyID is the variadic argument list
TargetKeyID(reg, keyID) ==
    IF Len(keyID) > 0 /\ keyID[1] # <<>> THEN keyID[1] ELSE reg.defaultKey

\* Encrypt that resolves the key before it looks at the plaintext
EncryptKeyFirst(reg, plaintext, keyID, nonce) ==
    LET targetKeyID == TargetKeyID(reg, keyID) IN
    IF targetKeyID \notin DOMAIN reg.keys
    THEN Fail(MkErr("key_not_found", targetKeyID, <<>>))
    ELSE IF plaintext = <<>> THEN Ok(<<>>)
    ELSE
      LET key == reg.keys[targetKeyID]
          ciphertext == Seal(key.Value, nonce, plaintext)
      IN Ok(Concat(<<targetKeyID, <<Pipe>>, B64Encode(nonce), <<Pipe>>,
                     B64Encode(ciphertext)>>))

\* Encrypt(plaintext, keyID...) with nonce the bytes rand.Read returned
Encrypt(reg, plaintext, keyID, nonce) ==
    IF plaintext = <<>> THEN Ok(<<>>)
    ELSE
      LET targetKeyID == TargetKeyID(reg, keyID) IN
      IF targetKeyID \notin DOMAIN reg.keys
      THEN Fail(MkErr("key_not_found", targetKeyID, <<>>))
      ELSE
        LET key == reg.keys[targetKeyID]
            ciphertext == Seal(key.Value, nonce, plaintext)
        IN Ok(Concat(<<targetKeyID, <<Pipe>>, B64Encode(nonce), <<Pipe>>,
                       B64Encode(ciphertext)>>))

\* Decrypt(encryptedData)
Decrypt(reg, encryptedData) ==
    IF encryptedData = <<>> THEN Ok(<<>>)
    ELSE
      LET parts == SplitN(encryptedData, Pipe, 3) IN
      IF Len(parts) # 3 THEN Fail(MkErr("invalid_format", <<>>, <<>>))
      ELSE
        LET keyID == parts[1]
            nonce == B64Decode(parts[2])
            ciphertext == B64Decode(parts[3])
        IN
        IF keyID \notin DOMAIN reg.keys
        THEN Fail(MkErr("key_not_found", keyID, GetKeyIDs(reg)))
        ELSE IF ~nonce.ok THEN Fail(MkErr("decode_nonce", <<>>, <<>>))
        ELSE IF ~ciphertext.ok THEN Fail(MkErr("decode_ciphertext", <<>>, <<>>))
        ELSE
          LET opened == Open(reg.keys[keyID].Value, nonce.bytes, ciphertext.bytes)
          IN CASE opened.kind = "panic" -> Panic
               [] opened.kind = "err" -> Fail(MkErr("decrypt_failed", <<>>, <<>>))
               [] OTHER -> Ok(opened.val)

-----------------------------------------------------------------------------
(* Inputs *)

\* key IDs "1", "2", "9", "a" and "a|b"
Id1 == <<49>>
Id2 == <<50>>
Id9 == <<57>>
IdA == <<97>>
IdAPipeB == <<97, Pipe, 98>>

\* 32 bytes of key material, one per n
KeyBytes(n) == [i \in 1..KeySize |-> (n * 50 + i) % 256]

\* a key of 31 bytes
ShortKey == [i \in 1..(KeySize - 1) |-> i]

\* the key material configured under each ID
PoolKey(id) ==
    CASE id = Id1 -> KeyBytes(1)
      [] id = Id2 -> KeyBytes(2)
      [] id = IdAPipeB -> KeyBytes(3)
      [] OTHER -> KeyBytes(4)

Cfg(ids, d) == [Keys |-> [k \in ids |-> PoolKey(k)], DefaultKeyID |-> d]

\* the Config values handed to New
Configs ==
    {Cfg(S, d) : S \in SUBSET {Id1, Id2}, d \in {<<>>, Id1, Id2}}
    \cup {Cfg({IdAPipeB, IdA}, IdAPipeB), Cfg({IdA}, IdA)}
    \cup {[Keys |-> (Id1 :> KeyBytes(3)), DefaultKeyID |-> Id1],
          [Keys |-> (Id1 :> KeyBytes(1) @@ Id2 :> ShortKey), DefaultKeyID |-> Id1],
          [Keys |-> (Id1 :> ShortKey @@ Id2 :> ShortKey), DefaultKeyID |-> Id2]}

\* "a|b@c...": the plaintexts are its prefixes, and the empty string
SamplePlain == <<97, Pipe, 98, 64, 99, 46, 100, 101>>

Plaintexts == {SubSeq(SamplePlain, 1, n) : n \in 0..MaxPlainLen}

\* the variadic keyID argument of Encrypt
KeyArgs == {<<>>} \cup {<<k>> : k \in {<<>>, Id1, Id2, Id9, IdA, IdAPipeB}}

\* the n-th value rand.Read may fill a nonce with
Nonce(n) == [j \in 1..NonceSize |-> (n * 37 + j * 11) % 256]

-----------------------------------------------------------------------------
(* Go values seen through reflect *)

\* a string, an int, a struct (sub: its fields), a pointer (sub: <<>> when
\* nil, <<pointee>> otherwise) and a slice (sub: its elements)
StrV(s) == [kind |-> "string", s |-> s, n |-> 0, sub |-> <<>>]

IntV(n) == [kind |-> "int", s |-> <<>>, n |-> n, sub |-> <<>>]

StructV(fields) == [kind |-> "struct", s |-> <<>>, n |-> 0, sub |-> fields]

PtrV(v) == [kind |-> "ptr", s |-> <<>>, n |-> 0, sub |-> <<v>>]

NilPtr == [kind |-> "ptr", s |-> <<>>, n |-> 0, sub |-> <<>>]

SliceV(elems) == [kind |-> "slice", s |-> <<>>, n |-> 0, sub |-> elems]

\* reflect.Value{}: what Elem() of a nil pointer returns
InvalidV == [kind |-> "invalid", s |-> <<>>, n |-> 0, sub |-> <<>>]

\* a struct field: its name, the value of its `encrypted` tag, whether it is
\* exported, and its value
Field(name, tag, exported, v) ==
    [name |-> name, tag |-> tag, exported |-> exported, v |-> v]

\* CanSet that does not look at whether the field is exported
CanSetUnexported(f, addressable) == addressable

\* field.CanSet(): the field is exported and the struct is addressable
CanSet(f, addressable) == f.exported /\ addressable

\* the nonce rand.Read returns for the i-th field encrypted in a pass
NonceAt(n, i) == Nonce(((n + i) % MaxNonces) + 1)

-----------------------------------------------------------------------------
(* encryptModel (BunInsertQuery and BunUpdateQuery: the same code) *)

\* the loop over the fields from index i on: [fields, err]
RECURSIVE EncryptFields(_, _, _, _, _, _)
EncryptFields(reg, keyID, fields, addressable, i, n) ==
    IF i > Len(fields) THEN [fields |-> fields, err |-> NoErr]
    ELSE
      LET f == fields[i] IN
      IF ~CanSet(f, addressable)
      THEN EncryptFields(reg, keyID, fields, addressable, i + 1, n)
      ELSE IF f.tag = "true" /\ f.v.kind = "string" /\ f.v.s # <<>>
      THEN
        LET r == IF keyID # <<>>
                 THEN Encrypt(reg, f.v.s, <<keyID>>, NonceAt(n, i))
                 ELSE Encrypt(reg, f.v.s, <<>>, NonceAt(n, i))
        IN IF r.kind # "ok"
           THEN [fields |-> fields, err |-> WrapField(f.name, r.err)]
           ELSE EncryptFields(reg, keyID,
                              [fields EXCEPT ![i].v = StrV(r.val)],
                              addressable, i + 1, n)
      ELSE EncryptFields(reg, keyID, fields, addressable, i + 1, n)

\* encryptModel(model) of a query with key ID keyID: the model as the pass
\* leaves it, and the error returned
encryptModel(reg, keyID, model, n) ==
    LET viaPtr == model.kind = "ptr"
        val == IF viaPtr
               THEN (IF model.sub = <<>> THEN InvalidV ELSE model.sub[1])
               ELSE model
    IN IF val.kind # "struct" THEN [model |-> model, err |-> NoErr]
       ELSE
         LET r == EncryptFields(reg, keyID, val.sub, viaPtr, 1, n)
         IN [model |-> IF viaPtr THEN PtrV(StructV(r.fields))
                       ELSE StructV(r.fields),
             err |-> r.err]

-----------------------------------------------------------------------------
(* DecryptRecursive *)

\* the outcome of a pass: "ok", "err" (with the error) or "panic"
PassOk == [kind |-> "ok", err |-> NoErr]

PassOf(r) == [kind |-> r.kind, err |-> r.err]

RECURSIVE DecryptRecursive(_, _)
RECURSIVE DecryptElems(_, _, _)
RECURSIVE DecryptStructFields(_, _, _, _)

\* a slice loop that visits no element
DecryptElemsSkip(reg, elems, i) == [v |-> elems, out |-> PassOk]

\* the slice loop from index i on: [v, out]
DecryptElems(reg, elems, i) ==
    IF i > Len(elems) THEN [v |-> elems, out |-> PassOk]
    ELSE
      LET elem == elems[i] IN
      IF elem.kind = "ptr" /\ elem.sub # <<>>
      THEN LET r == DecryptRecursive(reg, elem)
           IN IF r.out.kind # "ok"
              THEN [v |-> [elems EXCEPT ![i] = r.v], out |-> r.out]
              ELSE DecryptElems(reg, [elems EXCEPT ![i] = r.v], i + 1)
      ELSE IF elem.kind = "struct"
      THEN LET r == DecryptRecursive(reg, PtrV(elem))
           IN IF r.out.kind # "ok"
              THEN [v |-> [elems EXCEPT ![i] = r.v.sub[1]], out |-> r.out]
              ELSE DecryptElems(reg, [elems EXCEPT ![i] = r.v.sub[1]], i + 1)
      ELSE DecryptElems(reg, elems, i + 1)

\* the struct loop from field i on: [v, out]
DecryptStructFields(reg, fields, addressable, i) ==
    IF i > Len(fields) THEN [v |-> fields, out |-> PassOk]
    ELSE
      LET f == fields[i]
          skip == DecryptStructFields(reg, fields, addressable, i + 1)
      IN
      IF ~CanSet(f, addressable) THEN skip
      ELSE IF f.tag = "true"
      THEN
        IF f.v.kind = "string" /\ f.v.s # <<>> /\ Contains(f.v.s, Pipe)
        THEN LET r == Decrypt(reg, f.v.s)
             IN IF r.kind = "panic" THEN [v |-> fields, out |-> PassOf(Panic)]
                ELSE IF r.kind = "err"
                THEN [v |-> fields,
                      out |-> [kind |-> "err", err |-> WrapField(f.name, r.err)]]
                ELSE DecryptStructFields(
                         reg, [fields EXCEPT ![i].v = StrV(r.val)],
                         addressable, i + 1)
        ELSE skip
      ELSE IF f.v.kind \in {"struct", "slice"}
      THEN LET r == DecryptRecursive(reg, PtrV(f.v))
           IN IF r.out.kind # "ok"
              THEN [v |-> [fields EXCEPT ![i].v = r.v.sub[1]], out |-> r.out]
              ELSE DecryptStructFields(
                       reg, [fields EXCEPT ![i].v = r.v.sub[1]],
                       addressable, i + 1)
      ELSE IF f.v.kind = "ptr" /\ f.v.sub # <<>>
      THEN LET r == DecryptRecursive(reg, f.v)
           IN IF r.out.kind # "ok"
              THEN [v |-> [fields EXCEPT ![i].v = r.v], out |-> r.out]
              ELSE DecryptStructFields(
                       reg, [fields EXCEPT ![i].v = r.v], addressable, i + 1)
      ELSE skip

\* DecryptRecursive that also decrypts a string it is handed a pointer to
DecryptRecursiveStrings(reg, value) ==
    IF value.kind = "nil" THEN [v |-> value, out |-> PassOk]
    ELSE IF value.kind = "ptr" /\ value.sub = <<>>
    THEN [v |-> value, out |-> PassOk]
    ELSE
      LET viaPtr == value.kind = "ptr"
          val == IF viaPtr THEN value.sub[1] ELSE value
          wrap(x) == IF viaPtr THEN PtrV(x) ELSE x
      IN IF val.kind = "slice"
         THEN LET r == DecryptElems(reg, val.sub, 1)
              IN [out |-> r.out, v |-> wrap(SliceV(r.v))]
         ELSE IF val.kind = "struct"
         THEN LET r == DecryptStructFields(reg, val.sub, viaPtr, 1)
              IN [out |-> r.out, v |-> wrap(StructV(r.v))]
         ELSE IF viaPtr /\ val.kind = "string" /\ Contains(val.s, Pipe)
         THEN LET d == Decrypt(reg, val.s)
              IN IF d.kind = "ok"
                 THEN [out |-> PassOk, v |-> PtrV(StrV(d.val))]
                 ELSE [out |-> PassOf(d), v |-> value]
         ELSE [v |-> value, out |-> PassOk]

\* DecryptRecursive without the nil checks: reflection on a nil value
DecryptRecursiveNoNilCheck(reg, value) ==
    IF value.kind = "nil" \/ (value.kind = "ptr" /\ value.sub = <<>>)
    THEN [v |-> value, out |-> PassOf(Panic)]
    ELSE
      LET viaPtr == value.kind = "ptr"
          val == IF viaPtr THEN value.sub[1] ELSE value
          wrap(x) == IF viaPtr THEN PtrV(x) ELSE x
      IN IF val.kind = "slice"
         THEN LET r == DecryptElems(reg, val.sub, 1)
              IN [out |-> r.out, v |-> wrap(SliceV(r.v))]
         ELSE IF val.kind = "struct"
         THEN LET r == DecryptStructFields(reg, val.sub, viaPtr, 1)
              IN [out |-> r.out, v |-> wrap(StructV(r.v))]
         ELSE [v |-> value, out |-> PassOk]

\* DecryptRecursive(value): the value as the pass leaves it, and the outcome.
\* value is what the interface holds; kind "nil" is the nil interface.
DecryptRecursive(reg, value) ==
    IF value.kind = "nil" THEN [v |-> value, out |-> PassOk]
    ELSE IF value.kind = "ptr" /\ value.sub = <<>>
    THEN [v |-> value, out |-> PassOk]
    ELSE
      LET viaPtr == value.kind = "ptr"
          val == IF viaPtr THEN value.sub[1] ELSE value
          wrap(x) == IF viaPtr THEN PtrV(x) ELSE x
      IN IF val.kind = "slice"
         THEN LET r == DecryptElems(reg, val.sub, 1)
              IN [out |-> r.out, v |-> wrap(SliceV(r.v))]
         ELSE IF val.kind = "struct"
         THEN LET r == DecryptStructFields(reg, val.sub, viaPtr, 1)
              IN [out |-> r.out, v |-> wrap(StructV(r.v))]
         ELSE [v |-> value, out |-> PassOk]

-----------------------------------------------------------------------------
(* Callers of the engine: construct, encrypt, decrypt *)

\* the identity of a registry: its keys and its default key ID
RegOf(reg) == [keys |-> reg.keys, defaultKey |-> reg.defaultKey]

\* no token held
NoTok ==
    [set |-> FALSE, s |-> <<>>, pt |-> <<>>, kid |-> <<>>, key |-> <<>>,
     nonce |-> <<>>, reg |-> <<>>]

\* the token is handed to Decrypt as it was returned
NoMangle == [kind |-> "none", a |-> 0, b |-> 0]

\* no call made yet
NoRes ==
    [op |-> "none", p |-> <<>>, k |-> <<>>, in |-> <<>>, m |-> NoMangle,
     out |-> Ok(<<>>)]

\* no query under construction
NoQuery ==
    [kind |-> "none", keyID |-> <<>>, err |-> NoErr, bound |-> FALSE,
     encFailed |-> FALSE]

\* no model or destination built by the caller yet
NoObj == [set |-> FALSE, cur |-> NilPtr, orig |-> NilPtr]

\* no query executed yet
NoRet ==
    [op |-> "none", kind |-> "none", withDest |-> FALSE, out |-> PassOk,
     before |-> <<>>, encFailed |-> FALSE]

Init ==
    /\ g \in UNION {New(c) : c \in Configs}
    /\ tok = NoTok
    /\ res = NoRes
    /\ q = NoQuery
    /\ obj = NoObj
    /\ table = <<>>
    /\ ret = NoRet
    /\ dbs = <<>>

\* the application is started with another configuration (key rotation);
\* the tokens written so far remain
NewCall(c) ==
    /\ \E r \in New(c) : g' = r
    /\ res' = [NoRes EXCEPT !.op = "New"]
    /\ UNCHANGED <<tok, ormVars>>

\* Encrypt that keeps the key it used as the registry's default key
EncryptCallCachingKey(p, k, n) ==
    /\ g.ok
    /\ LET r == Encrypt(g, p, k, Nonce(n))
           kid == TargetKeyID(g, k)
       IN /\ res' = [op |-> "Encrypt", p |-> p, k |-> k, in |-> <<>>,
                      m |-> NoMangle, out |-> r]
          /\ tok' = IF r.kind = "ok"
                    THEN [set |-> TRUE, s |-> r.val, pt |-> p, kid |-> kid,
                          key |-> IF kid \in DOMAIN g.keys
                                  THEN g.keys[kid].Value ELSE <<>>,
                          nonce |-> IF p = <<>> THEN <<>> ELSE Nonce(n),
                          reg |-> RegOf(g)]
                    ELSE NoTok
          /\ g' = IF kid \in DOMAIN g.keys
                  THEN [g EXCEPT !.defaultKey = kid] ELSE g
    /\ UNCHANGED ormVars

\* token, err := g.Encrypt(p, k...)
EncryptCall(p, k, n) ==
    /\ g.ok
    /\ LET r == Encrypt(g, p, k, Nonce(n))
           kid == TargetKeyID(g, k)
       IN /\ res' = [op |-> "Encrypt", p |-> p, k |-> k, in |-> <<>>,
                      m |-> NoMangle, out |-> r]
          /\ tok' = IF r.kind = "ok"
                    THEN [set |-> TRUE, s |-> r.val, pt |-> p, kid |-> kid,
                          key |-> IF kid \in DOMAIN g.keys
                                  THEN g.keys[kid].Value ELSE <<>>,
                          nonce |-> IF p = <<>> THEN <<>> ELSE Nonce(n),
                          reg |-> RegOf(g)]
                    ELSE NoTok
    /\ UNCHANGED <<g, ormVars>>

\* plaintext, err := g.Decrypt(token) on the token held
DecryptCall ==
    /\ g.ok
    /\ tok.set
    /\ res' = [op |-> "Decrypt", p |-> tok.pt, k |-> <<>>, in |-> tok.s,
               m |-> NoMangle, out |-> Decrypt(g, tok.s)]
    /\ UNCHANGED <<g, tok, ormVars>>

Next ==
    \/ \E c \in Configs : NewCall(c)
    \/ \E p \in Plaintexts, k \in KeyArgs, n \in 1..MaxNonces : EncryptCall(p, k, n)
    \/ DecryptCall

Spec == Init /\ [][Next]_vars

-----------------------------------------------------------------------------
(* A stored token is corrupted before it is read back *)

\* the three segments of a token Encrypt returned: the text before the nonce
\* segment, the nonce segment and the ciphertext segment
TokenKeyID(t) == t.kid

TokenNonceSeg(t) == B64Encode(t.nonce)

TokenCipherSeg(t) == B64Encode(Seal(t.key, t.nonce, t.pt))

Token(kid, nonceSeg, cipherSeg) ==
    Concat(<<kid, <<Pipe>>, nonceSeg, <<Pipe>>, cipherSeg>>)

\* the ciphertext bytes with byte i replaced by its complement
Garble(bytes, i) == [bytes EXCEPT ![i] = 255 - bytes[i]]

\* the corruptions of a token t:
\*   flip      bit b of character a of the ciphertext segment is inverted
\*   nonce     the nonce segment is the base64 of the first a nonce bytes,
\*             or of the nonce followed by one more byte (a = NonceSize + 1)
\*   truncate  the ciphertext segment is the base64 of the first a bytes
\*   garble    the ciphertext segment is the base64 of the ciphertext with
\*             byte a complemented
Mangles(t) ==
    LET ctLen == Len(t.pt) + TagSize
        segLen == Len(TokenCipherSeg(t))
    IN {[kind |-> "flip", a |-> i, b |-> b] : i \in 1..segLen, b \in 0..7}
       \cup {[kind |-> "nonce", a |-> n, b |-> 0] :
                n \in {0, 3, NonceSize - 1, NonceSize + 1}}
       \cup {[kind |-> "truncate", a |-> n, b |-> 0] :
                n \in {0, TagSize - 1, TagSize, ctLen - 1}}
       \cup {[kind |-> "garble", a |-> i, b |-> 0] : i \in {1, ctLen}}

Mangle(t, m) ==
    LET nonceSeg == TokenNonceSeg(t)
        ct == Seal(t.key, t.nonce, t.pt)
        cipherSeg == B64Encode(ct)
    IN CASE m.kind = "flip" ->
              Token(t.kid, nonceSeg,
                    [cipherSeg EXCEPT ![m.a] = FlipBit(cipherSeg[m.a], m.b)])
         [] m.kind = "nonce" ->
              Token(t.kid,
                    B64Encode(IF m.a <= NonceSize THEN SubSeq(t.nonce, 1, m.a)
                              ELSE t.nonce \o <<0>>),
                    cipherSeg)
         [] m.kind = "truncate" ->
              Token(t.kid, nonceSeg, B64Encode(SubSeq(ct, 1, m.a)))
         [] m.kind = "garble" ->
              Token(t.kid, nonceSeg, B64Encode(Garble(ct, m.a)))
         [] OTHER -> t.s

\* token, err := g.Encrypt(p, k...) as the first call made
EncryptFirst(p, k, n) ==
    /\ res.op = "none"
    /\ EncryptCall(p, k, n)

\* plaintext, err := g.Decrypt(corrupted token), right after the token was
\* returned by Encrypt
DecryptMangled(m) ==
    /\ g.ok
    /\ tok.set
    /\ tok.s # <<>>
    /\ res.op = "Encrypt"
    /\ LET in == Mangle(tok, m)
       IN res' = [op |-> "Decrypt", p |-> tok.pt, k |-> <<>>, in |-> in,
                  m |-> m, out |-> Decrypt(g, in)]
    /\ UNCHANGED <<g, tok, ormVars>>

\* the configurations the corrupted tokens are read under
TamperConfigs == {Cfg({Id1, Id2}, d) : d \in {Id1, Id2}}

InitTamper ==
    /\ g \in UNION {New(c) : c \in TamperConfigs}
    /\ tok = NoTok
    /\ res = NoRes
    /\ q = NoQuery
    /\ obj = NoObj
    /\ table = <<>>
    /\ ret = NoRet
    /\ dbs = <<>>

NextTamper ==
    \/ \E p \in Plaintexts, k \in KeyArgs, n \in 1..MaxNonces : EncryptFirst(p, k, n)
    \/ \E m \in Mangles(tok) : DecryptMangled(m)

SpecTamper == InitTamper /\ [][NextTamper]_vars

-----------------------------------------------------------------------------
(* The bun adapter: handles, queries, the table *)

\* the model types of the schema: User{ID, Name, Email, Phone, Profile} with
\* Email and Phone tagged encrypted:"true" and Profile a has-one relation,
\* Profile{Bio} with Bio tagged
User(id, name, email, phone, profile) ==
    StructV(<<Field("ID", "", TRUE, IntV(id)),
              Field("Name", "", TRUE, StrV(name)),
              Field("Email", "true", TRUE, StrV(email)),
              Field("Phone", "true", TRUE, StrV(phone)),
              Field("Profile", "", TRUE, profile)>>)

Profile(bio) == StructV(<<Field("Bio", "true", TRUE, StrV(bio))>>)

\* var u User
ZeroUser == User(0, <<>>, <<>>, <<>>, NilPtr)

\* the texts "n", "a" and "a|"
TxtN == <<110>>
TxtA == <<97>>
TxtAPipe == <<97, Pipe>>

\* the models the caller hands to an insert or an update: a User with both
\* tagged fields set, a User with a related Profile, a []User and a []*User
OrmModels ==
    {PtrV(User(0, TxtN, TxtA, TxtAPipe, NilPtr)),
     PtrV(User(0, TxtN, TxtA, <<>>, PtrV(Profile(TxtA)))),
     PtrV(SliceV(<<User(0, TxtN, TxtAPipe, <<>>, NilPtr)>>)),
     PtrV(SliceV(<<PtrV(User(0, TxtN, TxtA, <<>>, NilPtr))>>))}

\* the configuration the adapter is run with: keys "1" and "2", default "1"
OrmConfigs == {Cfg({Id1, Id2}, Id1)}

\* the key IDs callers pass to WithKey: a registered and an unregistered one
OrmKeyIDs == {Id2, Id9}

\* the adapter handle over a registry, and BunDB.WithKey(keyID): a new handle
BunDB == [keyID |-> <<>>]

BunDBWithKey(db, keyID) == [db EXCEPT !.keyID = keyID]

Handles == {BunDB, BunDBWithKey(BunDB, Id2)}

\* the value of field name of a struct
FieldOf(st, name) ==
    LET i == CHOOSE j \in 1..Len(st.sub) : st.sub[j].name = name
    IN st.sub[i].v

\* the struct with its primary key set
SetID(st, id) ==
    StructV([i \in 1..Len(st.sub) |->
               IF st.sub[i].name = "ID"
               THEN [st.sub[i] EXCEPT !.v = IntV(id)] ELSE st.sub[i]])

\* the columns bun writes for a struct: its exported scalar fields
Cols(st) ==
    LET IsCol(f) == f.exported /\ f.v.kind \in {"string", "int"}
        cs == SelectSeq(st.sub, IsCol)
    IN [i \in 1..Len(cs) |-> [name |-> cs[i].name, v |-> cs[i].v]]

\* the struct bun fills from the columns of a row
Populate(st, cols) ==
    StructV([i \in 1..Len(st.sub) |->
               IF \E c \in 1..Len(cols) : cols[c].name = st.sub[i].name
               THEN LET c == CHOOSE c \in 1..Len(cols) :
                                 cols[c].name = st.sub[i].name
                    IN [st.sub[i] EXCEPT !.v = cols[c].v]
               ELSE st.sub[i]])

\* the structs of a model: the pointee, or the elements of the slice
StructsOf(model) ==
    LET val == model.sub[1]
        Deref(e) == IF e.kind = "ptr" THEN e.sub[1] ELSE e
    IN IF val.kind = "slice"
       THEN [i \in 1..Len(val.sub) |-> Deref(val.sub[i])]
       ELSE <<val>>

\* the model with the generated primary keys, from first on, scanned back
WithIDs(model, first) ==
    LET val == model.sub[1]
        Put(e, id) == IF e.kind = "ptr" THEN PtrV(SetID(e.sub[1], id))
                      ELSE SetID(e, id)
    IN IF val.kind = "slice"
       THEN PtrV(SliceV([i \in 1..Len(val.sub) |->
                           Put(val.sub[i], first + i - 1)]))
       ELSE PtrV(SetID(val, first))

\* bun's Err(err): the first error set on a query stays
Err(query, e) == IF query.err = NoErr THEN [query EXCEPT !.err = e] ELSE query

\* Model(model) that drops the error of encryptModel and binds the model
ModelIgnoringError(query, r) == [query EXCEPT !.bound = TRUE]

\* Model(model) after encryptModel returned r: the error is recorded and the
\* model is withheld from the query builder, or the model is bound
Model(query, r) ==
    IF r.err # NoErr THEN Err(query, r.err)
    ELSE [query EXCEPT !.bound = TRUE]

\* db.NewInsert(): the caller starts a query, with a model of its own and
\* the outcome of the previous query dropped
NewInsert(db) ==
    /\ g.ok
    /\ q.kind = "none"
    /\ q' = [NoQuery EXCEPT !.kind = "insert", !.keyID = db.keyID]
    /\ obj' = NoObj
    /\ ret' = NoRet
    /\ UNCHANGED <<g, tok, res, table, dbs>>

\* db.NewUpdate()
NewUpdate(db) ==
    /\ g.ok
    /\ q.kind = "none"
    /\ q' = [NoQuery EXCEPT !.kind = "update", !.keyID = db.keyID]
    /\ obj' = NoObj
    /\ ret' = NoRet
    /\ UNCHANGED <<g, tok, res, table, dbs>>

\* db.NewSelect()
NewSelect ==
    /\ g.ok
    /\ q.kind = "none"
    /\ q' = [NoQuery EXCEPT !.kind = "select"]
    /\ obj' = NoObj
    /\ ret' = NoRet
    /\ UNCHANGED <<g, tok, res, table, dbs>>

\* q.WithKey(keyID) on an insert, update or raw query, before or after Model
WithKey(keyID) ==
    /\ q.kind \in {"insert", "update", "raw"}
    /\ q.keyID # keyID
    /\ q' = [q EXCEPT !.keyID = keyID]
    /\ UNCHANGED <<g, tok, res, obj, table, ret, dbs>>

\* q.Model(model) on an insert query that encrypts under the default key
InsertModelDefaultKey(model, n) ==
    /\ q.kind = "insert"
    /\ ~q.bound
    /\ LET r == encryptModel(g, <<>>, model, n)
       IN /\ q' = [Model(q, r) EXCEPT
                      !.encFailed = q.encFailed \/ r.err # NoErr]
          /\ obj' = [set |-> TRUE, cur |-> r.model, orig |-> model]
    /\ UNCHANGED <<g, tok, res, table, ret, dbs>>

\* q.Model(model) on an insert query
InsertModel(model, n) ==
    /\ q.kind = "insert"
    /\ ~q.bound
    /\ LET r == encryptModel(g, q.keyID, model, n)
       IN /\ q' = [Model(q, r) EXCEPT
                      !.encFailed = q.encFailed \/ r.err # NoErr]
          /\ obj' = [set |-> TRUE, cur |-> r.model, orig |-> model]
    /\ UNCHANGED <<g, tok, res, table, ret, dbs>>

\* q.Model(model).WherePK() on an update query; the model names row id
UpdateModel(model, id, n) ==
    /\ q.kind = "update"
    /\ ~q.bound
    /\ model.sub[1].kind = "struct"
    /\ LET m == WithIDs(model, id)
           r == encryptModel(g, q.keyID, m, n)
       IN /\ q' = [Model(q, r) EXCEPT
                      !.encFailed = q.encFailed \/ r.err # NoErr]
          /\ obj' = [set |-> TRUE, cur |-> r.model, orig |-> m]
    /\ UNCHANGED <<g, tok, res, table, ret, dbs>>

\* the outcome of Exec on a query that holds an error or no model
ExecRefused(query) ==
    IF query.err # NoErr THEN [kind |-> "err", err |-> query.err]
    ELSE [kind |-> "err", err |-> MkErr("bun_no_model", <<>>, <<>>)]

\* q.Exec(ctx) on an insert query
InsertExec ==
    /\ q.kind = "insert"
    /\ IF q.err # NoErr \/ ~q.bound
       THEN /\ ret' = [op |-> "Exec", kind |-> "insert", withDest |-> FALSE,
                       out |-> ExecRefused(q), before |-> table,
                       encFailed |-> q.encFailed]
            /\ UNCHANGED <<obj, table>>
       ELSE /\ Len(table) + Len(StructsOf(obj.cur)) <= MaxRows
            /\ LET first == Len(table) + 1
                   cur == WithIDs(obj.cur, first)
                   orig == WithIDs(obj.orig, first)
                   sts == StructsOf(cur)
                   pls == StructsOf(orig)
               IN /\ table' = table \o
                       [i \in 1..Len(sts) |->
                          [cols |-> Cols(sts[i]), plain |-> Cols(pls[i])]]
                  /\ obj' = [obj EXCEPT !.cur = cur, !.orig = orig]
            /\ ret' = [op |-> "Exec", kind |-> "insert", withDest |-> FALSE,
                       out |-> PassOk, before |-> table,
                       encFailed |-> q.encFailed]
    /\ q' = NoQuery
    /\ UNCHANGED <<g, tok, res, dbs>>

\* q.Exec(ctx) on an update query
UpdateExec ==
    /\ q.kind = "update"
    /\ IF q.err # NoErr \/ ~q.bound
       THEN /\ ret' = [op |-> "Exec", kind |-> "update", withDest |-> FALSE,
                       out |-> ExecRefused(q), before |-> table,
                       encFailed |-> q.encFailed]
            /\ UNCHANGED table
       ELSE /\ LET id == FieldOf(obj.cur.sub[1], "ID").n
               IN table' = [i \in 1..Len(table) |->
                              IF i = id
                              THEN [cols |-> Cols(obj.cur.sub[1]),
                                    plain |-> Cols(obj.orig.sub[1])]
                              ELSE table[i]]
            /\ ret' = [op |-> "Exec", kind |-> "update", withDest |-> FALSE,
                       out |-> PassOk, before |-> table,
                       encFailed |-> q.encFailed]
    /\ q' = NoQuery
    /\ UNCHANGED <<g, tok, res, obj, dbs>>

\* q.Model(&dest) on a select query: dest is a User ("struct") or a []User
SelectModel(shape) ==
    /\ q.kind = "select"
    /\ ~q.bound
    /\ LET dest == IF shape = "slice" THEN PtrV(SliceV(<<>>))
                   ELSE PtrV(ZeroUser)
       IN obj' = [set |-> TRUE, cur |-> dest, orig |-> dest]
    /\ q' = [q EXCEPT !.bound = TRUE]
    /\ UNCHANGED <<g, tok, res, table, ret, dbs>>

\* q.Where("id = ?", id).Scan(ctx, &dest) when withDest, q.Scan(ctx) when
\* not: bun fills the bound model, the adapter decrypts the destinations it
\* was handed.  A slice destination receives every row.
SelectScan(withDest, id) ==
    /\ q.kind = "select"
    /\ q.bound
    /\ id <= Len(table)
    /\ LET slice == obj.cur.sub[1].kind = "slice"
           ids == IF slice THEN [i \in 1..Len(table) |-> i] ELSE <<id>>
           Fetch(src) == IF slice THEN PtrV(SliceV(src)) ELSE PtrV(src[1])
           fetched == Fetch([i \in 1..Len(ids) |->
                               Populate(ZeroUser, table[ids[i]].cols)])
           plain == Fetch([i \in 1..Len(ids) |->
                             Populate(ZeroUser, table[ids[i]].plain)])
           r == IF withDest THEN DecryptRecursive(g, fetched)
                ELSE [v |-> fetched, out |-> PassOk]
       IN /\ obj' = [set |-> TRUE, cur |-> r.v, orig |-> plain]
          /\ ret' = [op |-> "Scan", kind |-> "select", withDest |-> withDest,
                     out |-> r.out, before |-> table, encFailed |-> FALSE]
    /\ q' = NoQuery
    /\ UNCHANGED <<g, tok, res, table, dbs>>

InitOrm ==
    /\ g \in UNION {New(c) : c \in OrmConfigs}
    /\ tok = NoTok
    /\ res = NoRes
    /\ q = NoQuery
    /\ obj = NoObj
    /\ table = <<>>
    /\ ret = NoRet
    /\ dbs = <<>>

NextOrm ==
    \/ \E db \in Handles : NewInsert(db)
    \/ \E db \in Handles : NewUpdate(db)
    \/ NewSelect
    \/ \E k \in OrmKeyIDs : WithKey(k)
    \/ \E m \in OrmModels, n \in 1..MaxNonces : InsertModel(m, n)
    \/ \E m \in OrmModels, id \in 1..MaxRows, n \in 1..MaxNonces :
          UpdateModel(m, id, n)
    \/ InsertExec
    \/ UpdateExec
    \/ \E shape \in {"struct", "slice"} : SelectModel(shape)
    \/ \E withDest \in BOOLEAN, id \in 1..MaxRows : SelectScan(withDest, id)

SpecOrm == InitOrm /\ [][NextOrm]_vars

-----------------------------------------------------------------------------
(* Properties of the engine *)

\* the last call was Decrypt on an uncorrupted token
DecryptedClean == res.op = "Decrypt" /\ res.m = NoMangle

\* the key a token was produced under is in the registry: same ID, same bytes
HoldsKeyOf(reg, t) ==
    t.kid \in DOMAIN reg.keys /\ reg.keys[t.kid].Value = t.key

\* C1: for every registry accepted by construction, every key ID k registered
\* in it (or none, meaning the default key) and every plaintext p,
\* Decrypt(Encrypt(p, k)) returns exactly p with no error.
C1_RoundTrip ==
    (DecryptedClean /\ tok.reg = RegOf(g)) => res.out = Ok(tok.pt)

\* C6: Decrypt selects the key by the token's embedded key ID: a token
\* produced under key k decrypts to its plaintext under every registry that
\* contains k, whatever its default, and yields an UnknownKey error under
\* every registry that does not contain k.
C6_KeyFromToken ==
    (DecryptedClean /\ tok.s # <<>>) =>
        /\ HoldsKeyOf(g, tok) => res.out = Ok(tok.pt)
        /\ tok.kid \notin DOMAIN g.keys =>
              /\ res.out.kind = "err"
              /\ ErrorClass(res.out.err) = "UnknownKey"

\* C7: Encrypt uses the explicit key ID when it is non-empty and otherwise
\* the default key ID: the first segment of the returned token is that
\* resolved ID, and for a non-empty plaintext Encrypt returns an UnknownKey
\* error and no token when the resolved ID is not registered.
C7_ResolvedKey ==
    (res.op = "Encrypt" /\ res.p # <<>>) =>
        LET resolved == IF res.k # <<>> /\ res.k[1] # <<>>
                        THEN res.k[1] ELSE g.defaultKey
        IN IF resolved \in DOMAIN g.keys
           THEN /\ res.out.kind = "ok"
                /\ GetKeyIDFromEncryptedData(res.out.val).val = resolved
           ELSE /\ res.out.kind = "err"
                /\ ErrorClass(res.out.err) = "UnknownKey"
                /\ res.out.val = <<>>

\* C8: for every registry accepted by construction and every non-empty
\* plaintext, the token Encrypt returns contains exactly two '|' and its
\* three parts are the resolved key ID, the non-empty base64 of a 12-byte
\* nonce and the non-empty base64 of ciphertext plus tag.
C8_TokenShape ==
    (res.op = "Encrypt" /\ res.p # <<>> /\ res.out.kind = "ok") =>
        LET parts == SplitN(res.out.val, Pipe, 3)
            nonce == B64Decode(parts[2])
            ct == B64Decode(parts[3])
        IN /\ Count(res.out.val, Pipe) = 2
           /\ Len(parts) = 3
           /\ parts[1] = TargetKeyID(g, res.k)
           /\ parts[2] # <<>> /\ nonce.ok /\ Len(nonce.bytes) = NonceSize
           /\ parts[3] # <<>> /\ ct.ok /\ Len(ct.bytes) = Len(res.p) + TagSize
           /\ parts[2] = B64Encode(nonce.bytes)
           /\ parts[3] = B64Encode(ct.bytes)

\* one bit of the ciphertext segment of a token that Decrypt accepts was
\* inverted, and Decrypt was called on the result
FlippedValid ==
    /\ res.op = "Decrypt"
    /\ res.m.kind = "flip"
    /\ Decrypt(g, tok.s) = Ok(tok.pt)

\* the ciphertext segment Decrypt was handed, decoded
FlippedCipher == B64Decode(SplitN(res.in, Pipe, 3)[3])

\* C9 as stated: flipping any single bit in the base64 ciphertext segment of
\* a valid token makes Decrypt fail with DecryptionFailed.
C9_FlipAlwaysDecryptionFailed ==
    FlippedValid =>
        /\ res.out.kind = "err"
        /\ ErrorClass(res.out.err) = "DecryptionFailed"

\* C9 amended: flipping any single bit in the base64 ciphertext segment of a
\* valid token never makes Decrypt return a plaintext other than the one that
\* was encrypted.  Decrypt fails with a base64 decoding error (MalformedToken)
\* when the segment no longer decodes, fails with DecryptionFailed when it
\* decodes to other bytes, and returns the original plaintext when it decodes
\* to the same bytes (the bit is one of the unused low bits of the last
\* character before the padding, which the decoder does not check).
C9_FlipNeverWrongPlaintext ==
    FlippedValid =>
        /\ res.out.kind \in {"ok", "err"}
        /\ res.out.kind = "ok" => res.out.val = tok.pt
        /\ ~FlippedCipher.ok =>
              /\ res.out.kind = "err"
              /\ res.out.err.code = "decode_ciphertext"
        /\ (FlippedCipher.ok
              /\ FlippedCipher.bytes # Seal(tok.key, tok.nonce, tok.pt)) =>
              /\ res.out.kind = "err"
              /\ ErrorClass(res.out.err) = "DecryptionFailed"
        /\ (FlippedCipher.ok
              /\ FlippedCipher.bytes = Seal(tok.key, tok.nonce, tok.pt)) =>
              res.out = Ok(tok.pt)

\* C9 witness: a flipped bit that changes the decoded ciphertext was rejected
\* by the authentication
C9_Witness ==
    /\ FlippedValid
    /\ FlippedCipher.ok
    /\ res.out.kind = "err"
    /\ ErrorClass(res.out.err) = "DecryptionFailed"

\* C10: for every token whose key ID is registered and whose nonce and
\* ciphertext segments are valid base64, if the decoded nonce is not exactly
\* 12 bytes or the ciphertext is truncated or garbled, Decrypt returns a
\* DecryptionFailed error: it never panics and never returns a plaintext.
C10_BadNonceOrCiphertextFails ==
    LET parts == SplitN(res.in, Pipe, 3)
        nonce == B64Decode(parts[2])
        ct == B64Decode(parts[3])
    IN (/\ res.op = "Decrypt"
        /\ res.m.kind \in {"nonce", "truncate", "garble"}
        /\ Len(parts) = 3
        /\ parts[1] \in DOMAIN g.keys
        /\ nonce.ok /\ ct.ok
        /\ \/ Len(nonce.bytes) # NonceSize
           \/ ct.bytes # Seal(tok.key, tok.nonce, tok.pt)) =>
            /\ res.out.kind = "err"
            /\ ErrorClass(res.out.err) = "DecryptionFailed"

-----------------------------------------------------------------------------
(* Properties of the adapter *)

\* the tagged string fields the traversal of section 4.3 reaches from a
\* value, in order: through a pointer, through the elements of a slice, and
\* through the untagged struct, pointer and slice fields of a struct
RECURSIVE TaggedStrings(_)
TaggedStrings(v) ==
    IF v.kind = "ptr" \/ v.kind = "slice"
    THEN Concat([i \in 1..Len(v.sub) |-> TaggedStrings(v.sub[i])])
    ELSE IF v.kind = "struct"
    THEN Concat([i \in 1..Len(v.sub) |->
                   LET f == v.sub[i] IN
                   IF ~f.exported THEN <<>>
                   ELSE IF f.tag = "true"
                   THEN (IF f.v.kind = "string" THEN <<f.v.s>> ELSE <<>>)
                   ELSE TaggedStrings(f.v)])
    ELSE <<>>

\* v is a token of plaintext p under the registry
IsTokenOf(v, p) == v # p /\ Decrypt(g, v) = Ok(p)

\* C2: for every value stored in a tagged string field, values containing
\* '|' included, inserting a model and then selecting the row into a
\* destination of the same type yields the original value in every tagged
\* field and every untagged field as it was inserted.
C2_InsertSelectRoundTrip ==
    (ret.op = "Scan" /\ ret.withDest) =>
        /\ ret.out.kind = "ok"
        /\ obj.cur = obj.orig

C4_EncryptTraversesLikeDecrypt ==
    (q.kind \in {"insert", "update"} /\ q.bound) =>
        LET cur == TaggedStrings(obj.cur)
            orig == TaggedStrings(obj.orig)
        IN /\ Len(cur) = Len(orig)
           /\ \A i \in 1..Len(orig) :
                 orig[i] # <<>> => IsTokenOf(cur[i], orig[i])

\* C5: after a successful read, every value the query populated, the bound
\* model of a Scan without destination included, holds the plaintext in its
\* tagged string fields.
C5_ReadsYieldPlaintext ==
    (ret.op = "Scan" /\ ret.out.kind = "ok") =>
        TaggedStrings(obj.cur) = TaggedStrings(obj.orig)

-----------------------------------------------------------------------------
(* Decrypt on arbitrary input *)

\* the key ID segments of the inputs: empty, registered, unregistered
RawKeyIDs == {<<>>, Id1, Id9}

\* the base64 of a 12-byte nonce, and of what Seal returns for "a" under the
\* key configured as "1"
GoodNonceSeg == B64Encode(Nonce(1))

GoodCipherSeg == B64Encode(Seal(KeyBytes(1), Nonce(1), <<97>>))

\* "!!": not base64
NotBase64 == <<33, 33>>

\* the strings handed to Decrypt: every combination of the three segments,
\* and strings with fewer than two separators
RawInputs ==
    {Token(k, n, c) : k \in RawKeyIDs,
                      n \in {<<>>, GoodNonceSeg, NotBase64},
                      c \in {<<>>, GoodCipherSeg, NotBase64}}
    \cup {Id1, <<Pipe>>, Id1 \o <<Pipe>>, Id9 \o <<Pipe>> \o GoodNonceSeg,
          <<97, 98, 99>>}

\* the input was built by the caller, not returned by Encrypt
RawInput == [kind |-> "raw", a |-> 0, b |-> 0]

\* plaintext, err := g.Decrypt(s)
DecryptInput(s) ==
    /\ g.ok
    /\ res' = [op |-> "Decrypt", p |-> <<>>, k |-> <<>>, in |-> s,
               m |-> RawInput, out |-> Decrypt(g, s)]
    /\ UNCHANGED <<g, tok, ormVars>>

NextParse == \E s \in RawInputs : DecryptInput(s)

SpecParse == Init /\ [][NextParse]_vars

\* s splits on '|' into exactly three non-empty parts
ThreeNonEmptyParts(s) ==
    LET parts == SplitN(s, Pipe, 3)
    IN Len(parts) = 3 /\ \A i \in 1..3 : parts[i] # <<>>

\* C11: Decrypt returns a MalformedToken error for every non-empty input
\* that does not split on '|' into exactly three non-empty parts, inputs with
\* fewer than two separators and inputs with an empty part included.
C11_NotThreePartsIsMalformed ==
    (res.op = "Decrypt" /\ res.m = RawInput /\ res.in # <<>>
        /\ ~ThreeNonEmptyParts(res.in)) =>
        /\ res.out.kind = "err"
        /\ ErrorClass(res.out.err) = "MalformedToken"

-----------------------------------------------------------------------------
(* Two encryptions of one plaintext *)

\* token2, err := g.Encrypt(p, k...) with the plaintext and key ID argument
\* of the call that returned the token held
EncryptAgain(n) ==
    /\ g.ok
    /\ tok.set
    /\ res.op = "Encrypt"
    /\ res' = [op |-> "EncryptAgain", p |-> res.p, k |-> res.k,
               in |-> IF res.p = <<>> THEN <<>> ELSE Nonce(n),
               m |-> NoMangle, out |-> Encrypt(g, res.p, res.k, Nonce(n))]
    /\ UNCHANGED <<g, tok, ormVars>>

NextFresh ==
    \/ \E p \in Plaintexts, k \in KeyArgs, n \in 1..MaxNonces : EncryptFirst(p, k, n)
    \/ \E n \in 1..MaxNonces : EncryptAgain(n)

SpecFresh == Init /\ [][NextFresh]_vars

\* C12: two Encrypt calls with the same non-empty plaintext and the same key
\* return different tokens when rand.Read gave them different nonces, and
\* both tokens decrypt to that plaintext.
C12_FreshTokens ==
    (res.op = "EncryptAgain" /\ res.p # <<>> /\ res.out.kind = "ok") =>
        /\ res.in # tok.nonce => res.out.val # tok.s
        /\ Decrypt(g, tok.s) = Ok(res.p)
        /\ Decrypt(g, res.out.val) = Ok(res.p)

-----------------------------------------------------------------------------
(* Empty values *)

\* a User whose tagged fields are empty
EmptyUser == PtrV(User(0, TxtN, <<>>, <<>>, NilPtr))

\* C13: Encrypt("") returns "" and Decrypt("") returns "", without error and
\* without consulting any key, for every registry and every key ID argument,
\* an unregistered one included; an empty tagged field stays empty through
\* the encrypt pass and the decrypt pass.
C13_EmptyStaysEmpty ==
    /\ (res.op = "Encrypt" /\ res.p = <<>>) => res.out = Ok(<<>>)
    /\ (DecryptedClean /\ res.in = <<>>) => res.out = Ok(<<>>)
    /\ g.ok =>
          /\ \A k \in {<<>>, Id1, Id9} :
                encryptModel(g, k, EmptyUser, 1)
                    = [model |-> EmptyUser, err |-> NoErr]
          /\ DecryptRecursive(g, EmptyUser) = [v |-> EmptyUser, out |-> PassOk]

\* C13 witness: Encrypt("", "9") under a registry without key "9" returned
\* the empty token, and Decrypt of it returned ""
C13_Witness ==
    /\ DecryptedClean
    /\ tok.set /\ tok.pt = <<>> /\ tok.s = <<>>
    /\ tok.kid = Id9 /\ Id9 \notin DOMAIN g.keys
    /\ res.in = <<>>
    /\ res.out = Ok(<<>>)

-----------------------------------------------------------------------------
(* Construction of the registry *)

\* the key material of a map entry: 32 bytes, 31 bytes or 33 bytes
KeyOfLength(id, how) ==
    CASE how = "good" -> PoolKey(id)
      [] how = "short" -> ShortKey
      [] OTHER -> PoolKey(id) \o <<0>>

\* the key maps: every subset of the IDs "1", "2" and "a", every entry with
\* a key of any of the three lengths
KeyMaps ==
    UNION {{[k \in S |-> KeyOfLength(k, f[k])] :
               f \in [S -> {"good", "short", "long"}]} :
           S \in SUBSET {Id1, Id2, IdA}}

NewConfigs ==
    {[Keys |-> m, DefaultKeyID |-> d] : m \in KeyMaps, d \in {<<>>, Id1, Id2, Id9}}

\* before New is called
InitNew ==
    /\ g = NoRegistry(NoErr)
    /\ tok = NoTok
    /\ res = NoRes
    /\ q = NoQuery
    /\ obj = NoObj
    /\ table = <<>>
    /\ ret = NoRet
    /\ dbs = <<>>

\* g, err := New(c)
Construct(c) ==
    /\ \E r \in New(c) : g' = r
    /\ res' = [NoRes EXCEPT !.op = "Construct", !.in = c]
    /\ UNCHANGED <<tok, ormVars>>

NextNew == \E c \in NewConfigs : Construct(c)

SpecNew == InitNew /\ [][NextNew]_vars

\* the configuration New must reject
Rejected(c) ==
    \/ DOMAIN c.Keys = {}
    \/ c.DefaultKeyID = <<>>
    \/ c.DefaultKeyID \notin DOMAIN c.Keys
    \/ \E k \in DOMAIN c.Keys : Len(c.Keys[k]) # KeySize

-----------------------------------------------------------------------------
(* The two passes over model values *)

\* reflect.ValueOf(nil): the nil interface
NilV == [kind |-> "nil", s |-> <<>>, n |-> 0, sub |-> <<>>]

\* the texts "x" and "x|y", a token under the unregistered key "9", and a
\* token under key "1" whose nonce segment decodes to 3 bytes
TxtX == <<120>>
TxtXY == <<120, Pipe, 121>>
UnknownKeyToken == Token(Id9, GoodNonceSeg, GoodCipherSeg)
ShortNonceToken == Token(Id1, B64Encode(<<1, 2, 3>>), GoodCipherSeg)

\* a model with every kind of field the passes tell apart: untagged scalars
\* (ID, Name), tagged strings (Email, Phone), an unexported tagged string
\* (secret), a string tagged encrypted:"TRUE" (Code) and a tagged int (Age)
Account(email, phone) ==
    StructV(<<Field("ID", "", TRUE, IntV(7)),
              Field("Name", "", TRUE, StrV(TxtXY)),
              Field("Email", "true", TRUE, StrV(email)),
              Field("Phone", "true", TRUE, StrV(phone)),
              Field("secret", "true", FALSE, StrV(TxtXY)),
              Field("Code", "TRUE", TRUE, StrV(TxtXY)),
              Field("Age", "true", TRUE, IntV(30))>>)

\* a node of a tree of related records: a tagged Bio, an untagged pointer to
\* a child, an untagged slice of children
Node(bio, child, items) ==
    StructV(<<Field("Bio", "true", TRUE, StrV(bio)),
              Field("Child", "", TRUE, child),
              Field("Items", "", TRUE, SliceV(items))>>)

Leaf(bio) == Node(bio, NilPtr, <<>>)

\* a record embedding another by value, beside a tagged field of its own
Holder(email, inner) ==
    StructV(<<Field("Email", "true", TRUE, StrV(email)),
              Field("Inner", "", TRUE, inner)>>)

\* a slice of records that embed a record by value, which points to a
\* record and holds a slice of further records
Family ==
    PtrV(SliceV(<<
        Holder(TxtA, Node(TxtA, PtrV(Leaf(TxtX)), <<Leaf(TxtAPipe)>>)),
        Holder(<<>>, Leaf(TxtA))>>))

\* the values of the tagged fields of a model handed to the encrypt pass
WalkTexts == {<<>>, TxtA, TxtAPipe, TxtX, TxtXY}

\* the models handed to either pass
WalkRoots ==
    {PtrV(Account(e, p)) : e \in WalkTexts, p \in WalkTexts}
    \cup {Account(TxtA, TxtAPipe), NilV, NilPtr,
          PtrV(SliceV(<<>>)),
          PtrV(SliceV(<<Account(TxtA, <<>>), Account(TxtAPipe, TxtA)>>)),
          SliceV(<<Account(TxtA, TxtX)>>),
          PtrV(SliceV(<<NilPtr, PtrV(Account(TxtA, TxtA))>>)),
          PtrV(Leaf(TxtA)),
          PtrV(Node(TxtA, PtrV(Leaf(TxtAPipe)), <<>>)),
          PtrV(Node(TxtA, PtrV(Node(TxtX, PtrV(Leaf(TxtA)), <<Leaf(TxtAPipe)>>)),
                    <<Leaf(TxtA), Node(<<>>, PtrV(Leaf(TxtA)), <<>>)>>)),
          PtrV(Node(TxtA, PtrV(Leaf(TxtXY)), <<Leaf(TxtA)>>)),
          PtrV(Holder(TxtA, Leaf(TxtAPipe))),
          PtrV(Holder(TxtA, Node(TxtA, PtrV(Leaf(TxtA)), <<Leaf(TxtA)>>))),
          PtrV(Holder(TxtXY, Leaf(TxtA))),
          Family}

\* "x|y|z": a text written before the column was encrypted
TxtXYZ == <<120, Pipe, 121, Pipe, 122>>

\* the texts a tagged column can hold beside those
StoredTexts == {UnknownKeyToken, ShortNonceToken, TxtXYZ}

\* the values the decrypt pass is handed, before Stored
StoredRoots ==
    WalkRoots
    \cup {PtrV(Account(e, p)) : e \in WalkTexts \cup StoredTexts, p \in StoredTexts}
    \cup {PtrV(Account(e, p)) : e \in StoredTexts, p \in WalkTexts}
    \cup {PtrV(Node(TxtA, NilPtr,
                    <<Leaf(TxtA), Leaf(UnknownKeyToken), Leaf(TxtA)>>))}

\* the configurations the passes run under
WalkConfigs == {Cfg({Id1, Id2}, Id1), Cfg({IdAPipeB, IdA}, IdAPipeB)}

\* the key IDs of the queries: none, a registered and an unregistered one
WalkKeyIDs == {<<>>, Id2, Id9}

\* the value as the table returns it: the texts "a" and "a|" of the tagged
\* string fields the traversal of section 4.3 reaches were written as
\* tokens under key ID keyID, every other text was written as it is
RECURSIVE Stored(_, _, _, _)
Stored(reg, v, keyID, n) ==
    IF v.kind = "ptr" \/ v.kind = "slice"
    THEN [v EXCEPT !.sub = SubSeq([i \in 1..Len(v.sub) |->
                                     Stored(reg, v.sub[i], keyID, n)],
                                  1, Len(v.sub))]
    ELSE IF v.kind = "struct"
    THEN [v EXCEPT !.sub = SubSeq([i \in 1..Len(v.sub) |->
            LET f == v.sub[i] IN
            IF ~f.exported THEN f
            ELSE IF f.tag = "true"
            THEN (IF f.v.kind = "string" /\ f.v.s \in {TxtA, TxtAPipe}
                  THEN [f EXCEPT !.v = StrV(Encrypt(reg, f.v.s, keyID,
                                                    NonceAt(n, i)).val)]
                  ELSE f)
            ELSE [f EXCEPT !.v = Stored(reg, f.v, keyID, n)]],
                                  1, Len(v.sub))]
    ELSE v

InitWalk ==
    /\ g \in UNION {New(c) : c \in WalkConfigs}
    /\ tok = NoTok
    /\ res = NoRes
    /\ q = NoQuery
    /\ obj = NoObj
    /\ table = <<>>
    /\ ret = NoRet
    /\ dbs = <<>>

\* err := q.encryptModel(model) on a query whose key ID is keyID, for a
\* model no pass has touched
EncryptPass(model, keyID, n) ==
    /\ g.ok
    /\ ~obj.set
    /\ LET r == encryptModel(g, keyID, model, n)
       IN /\ obj' = [set |-> TRUE, cur |-> r.model, orig |-> model]
          /\ ret' = [op |-> "EncryptPass", kind |-> "insert",
                     withDest |-> FALSE,
                     out |-> IF r.err = NoErr THEN PassOk
                             ELSE [kind |-> "err", err |-> r.err],
                     before |-> <<>>, encFailed |-> r.err # NoErr]
    /\ q' = [NoQuery EXCEPT !.kind = "insert", !.keyID = keyID]
    /\ UNCHANGED <<g, tok, res, table, dbs>>

\* err := g.DecryptRecursive(value) on a value filled from the table
DecryptPass(root, n) ==
    /\ g.ok
    /\ ~obj.set
    /\ LET value == Stored(g, root, <<>>, n)
           r == DecryptRecursive(g, value)
       IN /\ obj' = [set |-> TRUE, cur |-> r.v, orig |-> value]
          /\ ret' = [op |-> "DecryptPass", kind |-> "select",
                     withDest |-> TRUE, out |-> r.out, before |-> <<>>,
                     encFailed |-> FALSE]
    /\ q' = [NoQuery EXCEPT !.kind = "select"]
    /\ UNCHANGED <<g, tok, res, table, dbs>>

NextWalk ==
    \/ \E m \in WalkRoots, k \in WalkKeyIDs, n \in 1..MaxNonces : EncryptPass(m, k, n)
    \/ \E m \in StoredRoots, n \in 1..MaxNonces : DecryptPass(m, n)

SpecWalk == InitWalk /\ [][NextWalk]_vars

-----------------------------------------------------------------------------
(* Properties of the passes *)

\* the root is a struct or a non-nil pointer to a struct
SingleStruct(v) ==
    \/ v.kind = "struct"
    \/ v.kind = "ptr" /\ v.sub # <<>> /\ v.sub[1].kind = "struct"

\* the fields of such a root
FieldsOf(v) == IF v.kind = "ptr" THEN v.sub[1].sub ELSE v.sub

\* an exported string field tagged encrypted:"true"
TaggedString(f) == f.exported /\ f.tag = "true" /\ f.v.kind = "string"

\* C15: after the encrypt pass ran without error on a single struct or a
\* pointer to a struct, every exported string field tagged "true" whose
\* value was non-empty holds a token of exactly three non-empty parts under
\* the selected key ID, and the token decrypts to the original value.
C15_EncryptPassLeavesTokens ==
    (ret.op = "EncryptPass" /\ ret.out = PassOk /\ SingleStruct(obj.orig)) =>
        \A i \in 1..Len(FieldsOf(obj.orig)) :
            LET f == FieldsOf(obj.orig)[i]
                t == FieldsOf(obj.cur)[i].v.s
                parts == SplitN(t, Pipe, 3)
            IN (TaggedString(f) /\ f.v.s # <<>>) =>
                   /\ Count(t, Pipe) = 2
                   /\ \A j \in 1..3 : parts[j] # <<>>
                   /\ parts[1] = TargetKeyID(g, IF q.keyID = <<>> THEN <<>>
                                                ELSE <<q.keyID>>)
                   /\ Decrypt(g, t) = Ok(f.v.s)


\* a field neither pass may touch: unexported, tagged "true" but not a
\* string, or a scalar whose tag is not exactly "true"
Frame(f) ==
    \/ ~f.exported
    \/ f.tag = "true" /\ f.v.kind # "string"
    \/ f.tag # "true" /\ f.v.kind \in {"string", "int"}

\* those fields of a value, at every depth, in traversal order
RECURSIVE FrameFields(_)
FrameFields(v) ==
    IF v.kind = "ptr" \/ v.kind = "slice"
    THEN Concat([i \in 1..Len(v.sub) |-> FrameFields(v.sub[i])])
    ELSE IF v.kind = "struct"
    THEN Concat([i \in 1..Len(v.sub) |->
                   LET f == v.sub[i] IN
                   IF Frame(f) THEN <<[name |-> f.name, v |-> f.v]>>
                   ELSE IF f.tag = "true" THEN <<>>
                   ELSE FrameFields(f.v)])
    ELSE <<>>

\* C16: neither pass changes the value of, or returns an error for, an
\* untagged scalar field, a field whose tag is not exactly "true", a tagged
\* field that is not a string, or a tagged field that is unexported.
C16_FrameFieldsUntouched ==
    (ret.op \in {"EncryptPass", "DecryptPass"}) =>
        /\ FrameFields(obj.cur) = FrameFields(obj.orig)
        /\ ret.out.kind = "err" =>
               \A i \in 1..Len(FrameFields(obj.orig)) :
                   FrameFields(obj.orig)[i].name # ret.out.err.field

\* C16 witness: a pass rewrote a tagged string of a model that also has an
\* untagged scalar, an unexported tagged field, a field tagged "TRUE" and a
\* tagged int.
C16_Witness ==
    /\ ret.op = "EncryptPass"
    /\ obj.cur # obj.orig
    /\ {FrameFields(obj.orig)[i].name : i \in 1..Len(FrameFields(obj.orig))}
           = {"ID", "Name", "secret", "Code", "Age"}


C18_DecryptPassReachesNested ==
    (ret.op = "DecryptPass" /\ ret.out = PassOk
        /\ obj.orig.kind \in {"ptr", "slice"}) =>
        LET before == TaggedStrings(obj.orig)
            after == TaggedStrings(obj.cur)
        IN /\ Len(after) = Len(before)
           /\ \A i \in 1..Len(before) :
                  (before[i] # <<>> /\ Count(before[i], Pipe) > 0) =>
                      Decrypt(g, before[i]) = Ok(after[i])

\* C18 witness: the pass over the stored Family returned it with the
\* plaintext in every tagged field, three levels down included.
C18_Witness ==
    /\ ret.op = "DecryptPass"
    /\ ret.out = PassOk
    /\ obj.cur = Family
    /\ \A i \in 1..Len(TaggedStrings(Family)) :
           TaggedStrings(Family)[i] \in {TxtA, TxtAPipe} =>
               TaggedStrings(obj.orig)[i] # TaggedStrings(Family)[i]


\* the names of the fields TaggedStrings lists, in the same order
RECURSIVE TaggedNames(_)
TaggedNames(v) ==
    IF v.kind = "ptr" \/ v.kind = "slice"
    THEN Concat([i \in 1..Len(v.sub) |-> TaggedNames(v.sub[i])])
    ELSE IF v.kind = "struct"
    THEN Concat([i \in 1..Len(v.sub) |->
                   LET f == v.sub[i] IN
                   IF ~f.exported THEN <<>>
                   ELSE IF f.tag = "true"
                   THEN (IF f.v.kind = "string" THEN <<f.name>> ELSE <<>>)
                   ELSE TaggedNames(f.v)])
    ELSE <<>>

\* the decrypt pass calls Decrypt for this value
NeedsDecrypt(s) == s # <<>> /\ Count(s, Pipe) > 0

\* C19: a pass in which a transform fails returns an error that names the
\* failing field and wraps the cause; the fields before it keep their
\* transformed values, the failing field and those after it their old ones.
C19_FailureStopsTraversal ==
    /\ (ret.op = "DecryptPass" /\ ret.out.kind # "ok") =>
           LET before == TaggedStrings(obj.orig)
               after == TaggedStrings(obj.cur)
               names == TaggedNames(obj.orig)
               bad == {i \in 1..Len(before) :
                          NeedsDecrypt(before[i])
                              /\ Decrypt(g, before[i]).kind # "ok"}
           IN /\ ret.out.kind = "err"
              /\ Len(after) = Len(before)
              /\ \E k \in bad :
                     /\ \A j \in bad : k <= j
                     /\ ret.out.err = WrapField(names[k], Decrypt(g, before[k]).err)
                     /\ \A i \in 1..Len(before) :
                            IF i < k /\ NeedsDecrypt(before[i])
                            THEN Decrypt(g, before[i]) = Ok(after[i])
                            ELSE after[i] = before[i]
    /\ (ret.op = "EncryptPass" /\ ret.out.kind # "ok") =>
           /\ ret.out.kind = "err"
           /\ SingleStruct(obj.orig)
           /\ obj.cur = obj.orig
           /\ \E k \in 1..Len(FieldsOf(obj.orig)) :
                  LET f == FieldsOf(obj.orig)[k]
                  IN /\ TaggedString(f) /\ f.v.s # <<>>
                     /\ \A j \in 1..(k - 1) :
                            LET e == FieldsOf(obj.orig)[j]
                            IN ~(TaggedString(e) /\ e.v.s # <<>>)
                     /\ ret.out.err.field = f.name
                     /\ ret.out.err.code = "key_not_found"
                     /\ ret.out.err.keyID = q.keyID


\* the value with every string blanked: its pointers, slices and fields
RECURSIVE Skeleton(_)
Skeleton(v) ==
    IF v.kind = "string" THEN StrV(<<>>)
    ELSE IF v.kind = "ptr" \/ v.kind = "slice"
    THEN [v EXCEPT !.sub = [i \in 1..Len(v.sub) |-> Skeleton(v.sub[i])]]
    ELSE IF v.kind = "struct"
    THEN [v EXCEPT !.sub = [i \in 1..Len(v.sub) |->
                              [v.sub[i] EXCEPT !.v = Skeleton(v.sub[i].v)]]]
    ELSE v

\* the value holds a nil pointer in a field or as a slice element
RECURSIVE HasNil(_)
HasNil(v) ==
    IF v.kind = "ptr" THEN v.sub = <<>> \/ HasNil(v.sub[1])
    ELSE IF v.kind = "slice"
    THEN \E i \in 1..Len(v.sub) : HasNil(v.sub[i])
    ELSE IF v.kind = "struct"
    THEN \E i \in 1..Len(v.sub) : HasNil(v.sub[i].v)
    ELSE FALSE

\* C20: either pass on a nil root or a typed nil pointer returns no error,
\* does not panic and changes nothing; nil pointer fields and nil slice
\* elements stay nil and cause neither an error nor a panic.
C20_NilIsSkipped ==
    (ret.op \in {"EncryptPass", "DecryptPass"}) =>
        /\ obj.orig \in {NilV, NilPtr} =>
               ret.out = PassOk /\ obj.cur = obj.orig
        /\ Skeleton(obj.cur) = Skeleton(obj.orig)
        /\ (ret.op = "DecryptPass" /\ HasNil(obj.orig)
               /\ \A i \in 1..Len(TaggedStrings(obj.orig)) :
                      LET s == TaggedStrings(obj.orig)[i]
                      IN NeedsDecrypt(s) => Decrypt(g, s).kind = "ok") =>
               ret.out = PassOk
        /\ (ret.op = "EncryptPass" /\ HasNil(obj.orig)
               /\ TargetKeyID(g, IF q.keyID = <<>> THEN <<>> ELSE <<q.keyID>>)
                      \in DOMAIN g.keys) =>
               ret.out = PassOk

\* C20 witness: a decrypt pass over a slice whose first element is a nil
\* pointer decrypted the record behind the second.
C20_Witness ==
    /\ ret.op = "DecryptPass"
    /\ ret.out = PassOk
    /\ obj.orig.kind = "ptr"
    /\ obj.orig.sub # <<>>
    /\ obj.orig.sub[1].kind = "slice"
    /\ Len(obj.orig.sub[1].sub) = 2
    /\ obj.orig.sub[1].sub[1] = NilPtr
    /\ obj.cur.sub[1].sub[1] = NilPtr
    /\ obj.cur.sub[1].sub[2] # obj.orig.sub[1].sub[2]

-----------------------------------------------------------------------------
(* Callers sharing one registry *)

\* the registry every caller holds
SharedConfigs == {Cfg({Id1, Id2}, Id1)}

\* the arguments of the callers' Encrypt calls
SharedKeyArgs == {<<>>, <<Id2>>, <<Id9>>}

\* the strings handed to GetKeyIDFromEncryptedData: empty, without a
\* separator, with one, two and three separators, with a leading separator,
\* and a well-formed token whose key is not registered
ExtractInputs ==
    {<<>>, Id1, TxtXY, <<Pipe>> \o Id1, Id1 \o <<Pipe, Pipe>>,
     Token(Id2, <<Pipe>>, TxtX) \o <<Pipe>>, UnknownKeyToken}

\* the models the callers' passes are handed
SharedRoots == {PtrV(Account(TxtA, TxtX)), PtrV(Leaf(TxtA))}

InitShared ==
    /\ g \in UNION {New(c) : c \in SharedConfigs}
    /\ tok = NoTok
    /\ res = NoRes
    /\ q = NoQuery
    /\ obj = NoObj
    /\ table = <<>>
    /\ ret = NoRet
    /\ dbs = <<>>

\* keyID, err := g.GetKeyIDFromEncryptedData(s)
ExtractCall(s) ==
    /\ g.ok
    /\ res' = [op |-> "GetKeyIDFromEncryptedData", p |-> <<>>, k |-> <<>>,
               in |-> s, m |-> RawInput,
               out |-> GetKeyIDFromEncryptedData(s)]
    /\ UNCHANGED <<g, tok, ormVars>>

\* ids := g.GetKeyIDs(); the list is joined with '|' to be recorded
KeyIDsCall ==
    /\ g.ok
    /\ res.op # "GetKeyIDs"
    /\ LET ids == GetKeyIDs(g)
       IN res' = [op |-> "GetKeyIDs", p |-> <<>>, k |-> <<>>, in |-> <<>>,
                  m |-> NoMangle,
                  out |-> Ok([i \in 1..Len(ids) |-> ids[i]])]
    /\ UNCHANGED <<g, tok, ormVars>>

NextShared ==
    \/ \E k \in SharedKeyArgs, n \in 1..MaxNonces : EncryptCall(TxtA, k, n)
    \/ DecryptCall
    \/ \E s \in ExtractInputs \cup {tok.s} : ExtractCall(s)
    \/ KeyIDsCall
    \/ \E m \in SharedRoots, k \in {<<>>, Id2} : EncryptPass(m, k, 1)
    \/ \E m \in SharedRoots : DecryptPass(m, 1)
    \/ \E k \in OrmKeyIDs : WithKey(k)

SpecShared == InitShared /\ [][NextShared]_vars

\* the result the call recorded in r has against registry reg
ResultAgainst(reg, r) ==
    CASE r.op = "Encrypt" ->
            \E n \in 1..(MaxNonces + 1) :
                r.out = Encrypt(reg, r.p, r.k, Nonce(n))
      [] r.op = "Decrypt" -> r.out = Decrypt(reg, r.in)
      [] r.op = "GetKeyIDFromEncryptedData" ->
            r.out = GetKeyIDFromEncryptedData(r.in)
      [] r.op = "GetKeyIDs" -> r.out.val = GetKeyIDs(reg)
      [] OTHER -> TRUE

\* C21: no operation after construction (Encrypt, Decrypt, key-ID
\* extraction, key listing, either traversal pass, WithKey) changes the
\* registry's key IDs, key material or default key ID, so whatever calls
\* other callers of the same registry made before, a call's result is the
\* one its own arguments have against the registry as it was constructed.
C21_RegistryIsReadOnly ==
    [][g.ok => /\ g' = g
               /\ g' \in UNION {New(c) : c \in SharedConfigs}
               /\ ResultAgainst(g, res')]_vars

\* a caller's Decrypt returned after another caller's pass and WithKey
C21_Witness ==
    /\ res.op = "Decrypt"
    /\ res.out.kind = "ok"
    /\ tok.kid = Id2
    /\ obj.set
    /\ q.keyID = Id9
    /\ g.defaultKey = Id1

\* C23: key-ID extraction returns the part of its input before the first
\* '|' (the whole input when it holds no '|', the empty string for the empty
\* input), and it succeeds whether or not that key is registered.
C23_KeyIDIsTextBeforeFirstPipe ==
    res.op = "GetKeyIDFromEncryptedData" =>
        /\ res.out.kind = "ok"
        /\ LET keyID == res.out.val
               n == Len(keyID)
           IN /\ n <= Len(res.in)
              /\ keyID = SubSeq(res.in, 1, n)
              /\ Count(keyID, Pipe) = 0
              /\ n = Len(res.in) \/ res.in[n + 1] = Pipe

\* the key ID of a well-formed token whose key is not registered was
\* extracted
C23_Witness ==
    /\ res.op = "GetKeyIDFromEncryptedData"
    /\ res.in = UnknownKeyToken
    /\ res.out = Ok(Id9)
    /\ Id9 \notin DOMAIN g.keys

\* the key IDs an error may quote: the registered ones, the one the query
\* asked for, and the key ID of a stored token
QuotableKeyIDs ==
    DOMAIN g.keys \cup {q.keyID}
    \cup {SplitN(s, Pipe, 2)[1] : s \in {UnknownKeyToken, ShortNonceToken}}

\* C22: no error returned by a traversal pass, or by the Encrypt or Decrypt
\* call it makes, contains key bytes, plaintext or any part of a field's
\* stored value: its text holds only a field name of the model and
\* registered or requested key identifiers.
C22_ErrorsQuoteOnlyKeyIDsAndFields ==
    (ret.op \in {"EncryptPass", "DecryptPass"} /\ ret.out.kind = "err") =>
        LET e == ret.out.err IN
        /\ e.keyID # <<>> => e.keyID \in QuotableKeyIDs
        /\ \A i \in 1..Len(e.avail) : e.avail[i] \in DOMAIN g.keys
        /\ e.field \in {"Email", "Phone", "Bio"}

-----------------------------------------------------------------------------
(* The Encryptor of the root package: re-encryption under the active key *)

\* NewWithKeys(keysMap, activeKeyID, pools...) with one pool given; the
\* Encryptor is recorded as a registry, activeKeyID as its default key.  Its
\* Encrypt takes the steps of Encrypt without a key ID, its Decrypt those of
\* Decrypt
NewWithKeys(keysMap, activeKeyID) ==
    LET ids == DOMAIN keysMap IN
    IF ids = {} THEN {NoRegistry(MkErr("no_keys", <<>>, <<>>))}
    ELSE IF activeKeyID \notin ids
        THEN {NoRegistry(MkErr("default_not_found", activeKeyID, <<>>))}
    ELSE
      LET bad == {k \in ids : Len(keysMap[k]) # KeySize} IN
      IF bad # {}
      THEN {NoRegistry(MkErr("bad_key_length", k, <<>>)) : k \in bad}
      ELSE {[ok |-> TRUE,
             keys |-> [k \in ids |-> [ID |-> k, Value |-> keysMap[k]]],
             defaultKey |-> activeKeyID,
             err |-> NoErr]}

\* ReEncrypt
ReEncrypt(e, encryptedData, nonce) ==
    IF encryptedData = <<>> THEN Ok(<<>>)
    ELSE
      LET plaintext == Decrypt(e, encryptedData) IN
      IF plaintext.kind # "ok" THEN plaintext
      ELSE Encrypt(e, plaintext.val, <<>>, nonce)

\* the Encryptors: keys "1" and "2" with either of them active, and keys
\* "a" and "a|b" with either of them active
EncryptorConfigs ==
    {Cfg({Id1, Id2}, Id1), Cfg({Id1, Id2}, Id2),
     Cfg({IdAPipeB, IdA}, IdA), Cfg({IdAPipeB, IdA}, IdAPipeB)}

\* a token of key "1" that opens to the empty plaintext
EmptyPlainToken ==
    Token(Id1, GoodNonceSeg, B64Encode(Seal(KeyBytes(1), Nonce(1), <<>>)))

\* the strings handed to ReEncrypt beside the tokens Encrypt returned
ReEncryptInputs ==
    {<<>>, TxtXY, UnknownKeyToken, ShortNonceToken, EmptyPlainToken,
     Token(Id1, GoodNonceSeg, NotBase64)}

InitReEncrypt ==
    /\ g \in UNION {NewWithKeys(c.Keys, c.DefaultKeyID) : c \in EncryptorConfigs}
    /\ tok = NoTok
    /\ res = NoRes
    /\ q = NoQuery
    /\ obj = NoObj
    /\ table = <<>>
    /\ ret = NoRet
    /\ dbs = <<>>

\* the application is started with another active key; the tokens written
\* so far remain
NewWithKeysCall(c) ==
    /\ \E r \in NewWithKeys(c.Keys, c.DefaultKeyID) : g' = r
    /\ g' # g
    /\ res' = [NoRes EXCEPT !.op = "NewWithKeys"]
    /\ UNCHANGED <<tok, ormVars>>

\* token, err := e.ReEncrypt(s)
ReEncryptCall(s, n) ==
    /\ g.ok
    /\ res' = [op |-> "ReEncrypt", p |-> <<>>, k |-> <<>>, in |-> s,
               m |-> IF s = tok.s THEN NoMangle ELSE RawInput,
               out |-> ReEncrypt(g, s, Nonce(n))]
    /\ UNCHANGED <<g, tok, ormVars>>

NextReEncrypt ==
    \/ \E c \in EncryptorConfigs : NewWithKeysCall(c)
    \/ \E p \in {<<>>, TxtA, TxtAPipe}, n \in 1..MaxNonces : EncryptCall(p, <<>>, n)
    \/ \E s \in ReEncryptInputs \cup {tok.s}, n \in 1..MaxNonces : ReEncryptCall(s, n)

SpecReEncrypt == InitReEncrypt /\ [][NextReEncrypt]_vars

\* C24: for every token t Decrypt accepts, ReEncrypt(t) returns a token whose
\* key ID is the active key ID and which decrypts to the plaintext of t;
\* when Decrypt(t) fails, ReEncrypt returns that error and no token.
C24_ReEncryptUnderActiveKey ==
    res.op = "ReEncrypt" =>
        LET plaintext == Decrypt(g, res.in) IN
        IF plaintext.kind = "ok"
        THEN /\ res.out.kind = "ok"
             /\ GetKeyIDFromEncryptedData(res.out.val).val = g.defaultKey
             /\ Decrypt(g, res.out.val) = plaintext
        ELSE /\ res.out.kind = "err"
             /\ res.out = plaintext

-----------------------------------------------------------------------------
(* The Encryptor's keys read from the environment *)

\* "ENCRYPTION_KEY_"
EnvPrefix == <<69, 78, 67, 82, 89, 80, 84, 73, 79, 78, 95, 75, 69, 89, 95>>

\* strings.HasPrefix
HasPrefix(s, prefix) ==
    Len(s) >= Len(prefix) /\ SubSeq(s, 1, Len(prefix)) = prefix

\* the value of a string of decimal digits
RECURSIVE DigitsValue(_)
DigitsValue(s) ==
    IF s = <<>> THEN 0
    ELSE 10 * DigitsValue(SubSeq(s, 1, Len(s) - 1)) + (s[Len(s)] - 48)

\* strconv.Atoi on strings too short to overflow: an optional sign, then one
\* or more decimal digits
Atoi(s) ==
    LET signed == s # <<>> /\ s[1] \in {43, 45}
        digits == IF signed THEN Tail(s) ELSE s
    IN IF digits = <<>> \/ \E i \in 1..Len(digits) : digits[i] \notin 48..57
       THEN [ok |-> FALSE, n |-> 0]
       ELSE [ok |-> TRUE,
             n |-> IF signed /\ s[1] = 45 THEN 0 - DigitsValue(digits)
                   ELSE DigitsValue(digits)]

\* fmt.Sprintf("%d", num)
RECURSIVE Itoa(_)
Itoa(num) ==
    IF num < 0 THEN <<45>> \o Itoa(0 - num)
    ELSE IF num < 10 THEN <<48 + num>>
    ELSE Itoa(num \div 10) \o <<48 + (num % 10)>>

\* the key whose ID sorts last as a string
LastOfSortedAsStrings(keyNumbers) ==
    LET ids == SortStrings({Itoa(keyNumbers[i]) : i \in 1..Len(keyNumbers)})
    IN Atoi(ids[Len(ids)]).n

\* sort.Ints(keyNumbers); keyNumbers[len(keyNumbers)-1]
LastOfSorted(keyNumbers) ==
    CHOOSE n \in {keyNumbers[i] : i \in 1..Len(keyNumbers)} :
        \A i \in 1..Len(keyNumbers) : keyNumbers[i] <= n

\* the loop of loadKeysFromEnv from entry i of os.Environ() on, and what
\* follows the loop
RECURSIVE LoadFrom(_, _, _, _)
LoadFrom(environ, i, keys, keyNumbers) ==
    IF i > Len(environ)
    THEN IF DOMAIN keys = {}
         THEN NoRegistry(MkErr("no_keys", <<>>, <<>>))
         ELSE [ok |-> TRUE, keys |-> keys,
               defaultKey |-> Itoa(LastOfSorted(keyNumbers)), err |-> NoErr]
    ELSE
      LET env == environ[i]
          parts == SplitN(env, 61, 2)
      IN
      IF ~HasPrefix(env, EnvPrefix) \/ Len(parts) # 2
      THEN LoadFrom(environ, i + 1, keys, keyNumbers)
      ELSE
        LET numStr == SubSeq(parts[1], Len(EnvPrefix) + 1, Len(parts[1]))
            num == Atoi(numStr)
            keyBytes == parts[2]
            keyID == Itoa(num.n)
        IN
        IF ~num.ok THEN LoadFrom(environ, i + 1, keys, keyNumbers)
        ELSE IF Len(keyBytes) # KeySize
        THEN NoRegistry(MkErr("bad_key_length", keyID, <<>>))
        ELSE LoadFrom(environ, i + 1,
                      [k \in DOMAIN keys \cup {keyID} |->
                          IF k = keyID THEN [ID |-> keyID, Value |-> keyBytes]
                          ELSE keys[k]],
                      Append(keyNumbers, num.n))

\* loadKeysFromEnv, the environment given
loadKeysFromEnv(environ) == LoadFrom(environ, 1, <<>>, <<>>)

\* the suffixes of the variable names: "9", "10", "2", "07", "-1", "x", ""
EnvSuffixes ==
    {<<57>>, <<49, 48>>, <<50>>, <<48, 55>>, <<45, 49>>, <<120>>, <<>>}

\* "ENCRYPTION_KEY_<suffix>=<value>"
EnvEntry(suffix, value) == Concat(<<EnvPrefix, suffix, <<61>>, value>>)

\* "PATH=/"
OtherEntry == <<80, 65, 84, 72, 61, 47>>

\* the entries of the environment: a 32-byte key under every suffix, a short
\* key under "2", and a variable of another name
EnvEntries ==
    {EnvEntry(s, KeyBytes(1)) : s \in EnvSuffixes}
    \cup {EnvEntry(<<50>>, ShortKey), EnvEntry(<<49, 48>>, KeyBytes(2)),
          OtherEntry}

\* the environments: up to MaxEnv entries
MaxEnv == 2

Environs == UNION {[1..n -> EnvEntries] : n \in 0..MaxEnv}

InitEnv ==
    /\ g = NoRegistry(NoErr)
    /\ tok = NoTok
    /\ res = NoRes
    /\ q = NoQuery
    /\ obj = NoObj
    /\ table = <<>>
    /\ ret = NoRet
    /\ dbs = <<>>

\* e, err := New(pool) in a process whose environment is environ
NewFromEnv(environ) ==
    /\ res.op = "none"
    /\ g' = loadKeysFromEnv(environ)
    /\ res' = [NoRes EXCEPT !.op = "New", !.in = environ]
    /\ UNCHANGED <<tok, ormVars>>

NextEnv ==
    \/ \E environ \in Environs : NewFromEnv(environ)
    \/ EncryptCall(TxtA, <<>>, 1)
    \/ DecryptCall

SpecEnv == InitEnv /\ [][NextEnv]_vars

\* the numbers of the ENCRYPTION_KEY_<N> variables of an environment
EnvNumbers(environ) ==
    {Atoi(s).n : s \in {s \in EnvSuffixes : Atoi(s).ok /\
        \E i \in 1..Len(environ), v \in {KeyBytes(1), KeyBytes(2), ShortKey} :
            environ[i] = EnvEntry(s, v)}}

\* C25: when the keys are loaded from environment variables with a numeric
\* suffix, the active key is the one with the numerically highest suffix
\* (10 wins over 9), and that key ID is present in the registry.
C25_HighestNumberIsActive ==
    (res.op = "New" /\ g.ok) =>
        /\ g.defaultKey \in DOMAIN g.keys
        /\ Atoi(g.defaultKey).ok
        /\ \A n \in EnvNumbers(res.in) : n <= Atoi(g.defaultKey).n
        /\ Atoi(g.defaultKey).n \in EnvNumbers(res.in)

\* keys 9 and 10 were loaded and 10 is active
C25_Witness ==
    /\ res.op = "New"
    /\ g.ok
    /\ EnvNumbers(res.in) = {9, 10}
    /\ g.defaultKey = <<49, 48>>

-----------------------------------------------------------------------------
(* Handles, transactions and the key ID of their queries *)

\* the handles and transactions a program holds at most
MaxHandles == 3

\* the key ID handed to db.WithKey and tx.WithKey
HandleKeyIDs == {Id2}

\* the model handed to the inserts and updates
KeyedModels == {PtrV(User(0, TxtN, TxtA, TxtAPipe, NilPtr))}

\* the texts handed to EncryptValue
RawTexts == {<<>>, TxtA}

\* BunWrapQueries(db, govault): dbs lists the handles and transactions in
\* the order they were made, a query remembers none of them
InitKeyed ==
    /\ g \in UNION {New(c) : c \in WalkConfigs}
    /\ tok = NoTok
    /\ res = NoRes
    /\ q = NoQuery
    /\ obj = NoObj
    /\ table = <<>>
    /\ ret = NoRet
    /\ dbs = <<[keyID |-> <<>>, tx |-> FALSE]>>

\* db.WithKey(keyID) and tx.WithKey(keyID) that set the key ID of the
\* receiver and return it
HandleWithKeyInPlace(h, keyID) ==
    /\ g.ok
    /\ Len(dbs) < MaxHandles
    /\ dbs' = Append([dbs EXCEPT ![h].keyID = keyID], [dbs[h] EXCEPT !.keyID = keyID])
    /\ res' = [NoRes EXCEPT !.op = "WithKey", !.in = <<h>>, !.k = <<keyID>>]
    /\ UNCHANGED <<g, tok, q, obj, table, ret>>

\* db.WithKey(keyID) and tx.WithKey(keyID) on handle h
HandleWithKey(h, keyID) ==
    /\ g.ok
    /\ Len(dbs) < MaxHandles
    /\ dbs' = Append(dbs, [dbs[h] EXCEPT !.keyID = keyID])
    /\ res' = [NoRes EXCEPT !.op = "WithKey", !.in = <<h>>, !.k = <<keyID>>]
    /\ UNCHANGED <<g, tok, q, obj, table, ret>>

\* db.Begin(), db.BeginTx(ctx, opts) and the transaction RunInTx hands to f
Begin(h) ==
    /\ g.ok
    /\ ~dbs[h].tx
    /\ Len(dbs) < MaxHandles
    /\ dbs' = Append(dbs, [keyID |-> dbs[h].keyID, tx |-> TRUE])
    /\ res' = [NoRes EXCEPT !.op = "Begin", !.in = <<h>>]
    /\ UNCHANGED <<g, tok, q, obj, table, ret>>

\* db.NewInsert(), db.NewUpdate(), db.NewRaw(query) and the same on a
\* transaction, h the handle they are called on
NewQuery(h, kind) ==
    /\ g.ok
    /\ q.kind = "none"
    /\ q' = [NoQuery EXCEPT !.kind = kind, !.keyID = dbs[h].keyID]
    /\ res' = [NoRes EXCEPT !.op = "NewQuery", !.in = <<h>>]
    /\ obj' = NoObj
    /\ ret' = NoRet
    /\ UNCHANGED <<g, tok, table, dbs>>

\* token, err := q.EncryptValue(plaintext) on a raw query
EncryptValue(plaintext, n) ==
    /\ q.kind = "raw"
    /\ ret.op = "none"
    /\ ret' = [NoRet EXCEPT
                 !.op = "EncryptValue", !.kind = "raw",
                 !.out = IF plaintext = <<>> THEN Ok(<<>>)
                         ELSE IF q.keyID # <<>>
                         THEN Encrypt(g, plaintext, <<q.keyID>>, Nonce(n))
                         ELSE Encrypt(g, plaintext, <<>>, Nonce(n))]
    /\ obj' = [set |-> TRUE, cur |-> StrV(plaintext), orig |-> StrV(plaintext)]
    /\ UNCHANGED <<g, tok, res, q, table, dbs>>

\* q.Exec(ctx) on a raw query: the statement is run, the query is done
RawExec ==
    /\ q.kind = "raw"
    /\ q' = NoQuery
    /\ UNCHANGED <<g, tok, res, obj, table, ret, dbs>>

NextKeyed ==
    \/ \E h \in 1..Len(dbs), k \in HandleKeyIDs : HandleWithKey(h, k)
    \/ \E h \in 1..Len(dbs) : Begin(h)
    \/ \E h \in 1..Len(dbs), kind \in {"insert", "update", "raw"} : NewQuery(h, kind)
    \/ \E k \in OrmKeyIDs : WithKey(k)
    \/ \E m \in KeyedModels : InsertModel(m, 1)
    \/ \E m \in KeyedModels : UpdateModel(m, 1, 1)
    \/ InsertExec
    \/ UpdateExec
    \/ \E p \in RawTexts : EncryptValue(p, 1)
    \/ RawExec

SpecKeyed == InitKeyed /\ [][NextKeyed]_vars

\* C28: db.WithKey(k) returns a new handle whose key ID is k and leaves the
\* receiver unchanged: no handle or transaction changes its key ID after it
\* was made, the first handle keeps the default key, a transaction takes
\* the key ID of the handle it was begun on, and every insert, update and
\* raw query takes the key ID of the handle or transaction it was made from.
C28_HandlesKeepTheirKey ==
    [][/\ Len(dbs') >= Len(dbs)
       /\ \A h \in 1..Len(dbs) : dbs'[h] = dbs[h]
       /\ dbs'[1].keyID = <<>>
       /\ (res'.op = "WithKey" /\ dbs' # dbs) =>
             dbs'[Len(dbs')].keyID = res'.k[1]
       /\ (res'.op = "Begin" /\ dbs' # dbs) =>
             dbs'[Len(dbs')].keyID = dbs[res'.in[1]].keyID
       /\ (res'.op = "NewQuery" /\ q.kind = "none" /\ q'.kind # "none") =>
             q'.keyID = dbs[res'.in[1]].keyID]_vars

\* after db.WithKey("2") made a second handle and a transaction was begun on
\* it, an insert made from the first handle wrote tokens of the default key
C28_Witness ==
    /\ Len(dbs) = 3
    /\ dbs[2].keyID = Id2
    /\ dbs[3] = [keyID |-> Id2, tx |-> TRUE]
    /\ res.op = "NewQuery"
    /\ res.in = <<1>>
    /\ q.kind = "insert"
    /\ q.bound
    /\ g.defaultKey = Id1
    /\ GetKeyIDFromEncryptedData(FieldOf(obj.cur.sub[1], "Email").s).val = Id1

\* s is what Encrypt returns for plaintext p under key ID keyID (the default
\* key when keyID is empty)
SealedUnder(s, p, keyID) ==
    \E n \in 1..MaxNonces : Encrypt(g, p, <<keyID>>, Nonce(n)) = Ok(s)

\* the value of column name in a row
ColOf(row, name) ==
    LET c == CHOOSE c \in 1..Len(row.cols) : row.cols[c].name = name
    IN row.cols[c].v.s

\* C26: the key used to encrypt a model is the query's key ID at the moment
\* Model is called: the tokens Model leaves in the tagged fields are sealed
\* under the key ID the query has then, a WithKey after Model changes none
\* of them, and Exec writes them as they are.
C26_KeyAtModelTime ==
    [][/\ (q.kind \in {"insert", "update"} /\ ~q.bound /\ q'.bound) =>
             \A name \in {"Email", "Phone"} :
                 SealedUnder(FieldOf(obj'.cur.sub[1], name).s,
                             FieldOf(obj'.orig.sub[1], name).s, q.keyID)
       /\ (q.bound /\ q'.bound) => obj' = obj
       /\ (q.bound /\ q'.kind = "none" /\ table' # table) =>
             \E i \in 1..Len(table') :
                 /\ \A j \in 1..Len(table) : j # i => table'[j] = table[j]
                 /\ \A name \in {"Email", "Phone"} :
                       ColOf(table'[i], name) = FieldOf(obj.cur.sub[1], name).s]_vars

\* WithKey("2") came before Model and WithKey("9") after it: the tokens of
\* the bound model are sealed under key "2"
C26_Witness ==
    /\ q.kind = "insert"
    /\ q.bound
    /\ q.keyID = Id9
    /\ SealedUnder(FieldOf(obj.cur.sub[1], "Email").s, TxtA, Id2)
    /\ SealedUnder(FieldOf(obj.cur.sub[1], "Phone").s, TxtAPipe, Id2)

-----------------------------------------------------------------------------
(* Passes repeated over one instance *)

\* the instances: pointers to a record with one tagged field and to records
\* with two, and a record handed over by value
TwiceRoots ==
    {PtrV(Leaf(TxtA)), PtrV(Account(TxtA, TxtAPipe)), PtrV(Account(TxtX, <<>>)),
     Leaf(TxtA)}

\* the passes run over the instance so far, oldest first
PassesRun == IF ret.op = "none" THEN <<>> ELSE Append(ret.before, ret.op)

\* err := q.encryptModel(u) on a further insert or update query for the
\* instance u an earlier pass has left
EncryptPassAgain(n) ==
    /\ obj.set
    /\ PassesRun = <<"EncryptPass">>
    /\ ret.out = PassOk
    /\ LET r == encryptModel(g, q.keyID, obj.cur, n)
       IN /\ obj' = [obj EXCEPT !.cur = r.model]
          /\ ret' = [op |-> "EncryptPassAgain", kind |-> "update",
                     withDest |-> FALSE,
                     out |-> IF r.err = NoErr THEN PassOk
                             ELSE [kind |-> "err", err |-> r.err],
                     before |-> PassesRun, encFailed |-> r.err # NoErr]
    /\ UNCHANGED <<g, tok, res, q, table, dbs>>

\* err := g.DecryptRecursive(u) for the instance as the passes left it (the
\* row written from it, selected back)
DecryptPassOver ==
    /\ obj.set
    /\ Len(PassesRun) \in 1..3
    /\ ret.out = PassOk
    /\ LET r == DecryptRecursive(g, obj.cur)
       IN /\ obj' = [obj EXCEPT !.cur = r.v]
          /\ ret' = [op |-> "DecryptPassOver", kind |-> "select",
                     withDest |-> TRUE, out |-> r.out, before |-> PassesRun,
                     encFailed |-> FALSE]
    /\ UNCHANGED <<g, tok, res, q, table, dbs>>

NextTwice ==
    \/ \E m \in TwiceRoots, k \in {<<>>, Id2}, n \in 1..MaxNonces : EncryptPass(m, k, n)
    \/ \E n \in 1..MaxNonces : EncryptPassAgain(n)
    \/ DecryptPassOver

SpecTwice == InitWalk /\ [][NextTwice]_vars

\* s is a token of p, not p itself
TokenOver(s, p) == s # p /\ Decrypt(g, s) = Ok(p)

\* C27: the encrypt pass mutates the caller's model in place and is not
\* idempotent: after one pass over a pointer to a record the tagged fields
\* hold tokens of their values, after a further pass over the same instance
\* they hold tokens of those tokens, and a single decrypt pass then leaves
\* the inner tokens, not the plaintexts.
C27_SecondPassWrapsToken ==
    (obj.set /\ obj.orig.kind = "ptr" /\ ret.out = PassOk) =>
        LET cur == TaggedStrings(obj.cur)
            orig == TaggedStrings(obj.orig)
        IN \A i \in 1..Len(orig) : orig[i] # <<>> =>
              CASE PassesRun = <<"EncryptPass">> -> TokenOver(cur[i], orig[i])
                [] PassesRun = <<"EncryptPass", "EncryptPassAgain">> ->
                      /\ Decrypt(g, cur[i]).kind = "ok"
                      /\ TokenOver(Decrypt(g, cur[i]).val, orig[i])
                [] PassesRun = <<"EncryptPass", "EncryptPassAgain",
                                 "DecryptPassOver">> ->
                      TokenOver(cur[i], orig[i])
                [] OTHER -> TRUE

-----------------------------------------------------------------------------
(* The passes over pointer graphs *)

\* the records of a graph
MaxNodes == 2

\* the registry of the graphs' tokens
GraphReg == CHOOSE r \in New(Cfg({Id1, Id2}, Id1)) : TRUE

\* the texts of the tagged field: empty, the tokens of "a" and of "a|", "a"
GraphTexts ==
    {<<>>, TxtA,
     Encrypt(GraphReg, TxtA, <<>>, Nonce(1)).val,
     Encrypt(GraphReg, TxtAPipe, <<>>, Nonce(1)).val}

\* type Node struct { Bio string `encrypted:"true"`; Next, Peer *Node }: the
\* records by address, 0 the nil pointer; the value handed to a pass is the
\* pointer to record 1
Graphs ==
    [1..MaxNodes -> [bio : GraphTexts, next : 0..MaxNodes, peer : 0..MaxNodes]]

\* the goroutine's stack is exhausted: the call at hand was entered with the
\* records in the state an unfinished call for the same pointer was entered
\* with, and would take the same steps without end
StackOverflow == [kind |-> "overflow", err |-> NoErr]

\* DecryptRecursive(&heap[a]); calls holds the unfinished calls, cnt the
\* number of Decrypt calls made for each record: [heap, cnt, out]
RECURSIVE DecryptRecursiveAt(_, _, _, _, _)
DecryptRecursiveAt(reg, heap, a, calls, cnt) ==
    IF <<heap, a>> \in calls
    THEN [heap |-> heap, cnt |-> cnt, out |-> StackOverflow]
    ELSE
      LET ciphertext == heap[a].bio
          tagged == ciphertext # <<>> /\ Contains(ciphertext, Pipe)
          decrypted == IF tagged THEN Decrypt(reg, ciphertext) ELSE Ok(ciphertext)
          c1 == IF tagged THEN [cnt EXCEPT ![a] = @ + 1] ELSE cnt
      IN
      IF decrypted.kind # "ok"
      THEN [heap |-> heap, cnt |-> c1,
            out |-> IF decrypted.kind = "panic" THEN PassOf(Panic)
                    ELSE [kind |-> "err", err |-> WrapField("Bio", decrypted.err)]]
      ELSE
        LET h1 == [heap EXCEPT ![a].bio = decrypted.val]
            inside == calls \cup {<<heap, a>>}
            r1 == IF h1[a].next = 0
                  THEN [heap |-> h1, cnt |-> c1, out |-> PassOk]
                  ELSE DecryptRecursiveAt(reg, h1, h1[a].next, inside, c1)
        IN IF r1.out # PassOk \/ r1.heap[a].peer = 0 THEN r1
           ELSE DecryptRecursiveAt(reg, r1.heap, r1.heap[a].peer, inside, r1.cnt)

\* encryptModel(&heap[1]): the fields of record 1 only
encryptModelAt(reg, keyID, heap, n) ==
    IF heap[1].bio = <<>> THEN [heap |-> heap, out |-> PassOk]
    ELSE
      LET r == IF keyID # <<>>
               THEN Encrypt(reg, heap[1].bio, <<keyID>>, NonceAt(n, 1))
               ELSE Encrypt(reg, heap[1].bio, <<>>, NonceAt(n, 1))
      IN IF r.kind # "ok"
         THEN [heap |-> heap,
               out |-> [kind |-> "err", err |-> WrapField("Bio", r.err)]]
         ELSE [heap |-> [heap EXCEPT ![1].bio = r.val], out |-> PassOk]

\* err := g.DecryptRecursive(&heap[1])
DecryptGraph(heap) ==
    /\ g.ok
    /\ ~obj.set
    /\ LET r == DecryptRecursiveAt(g, heap, 1, {}, [a \in 1..MaxNodes |-> 0])
       IN /\ obj' = [set |-> TRUE, cur |-> r.heap, orig |-> heap]
          /\ ret' = [op |-> "DecryptGraph", kind |-> "select",
                     withDest |-> TRUE, out |-> r.out, before |-> r.cnt,
                     encFailed |-> FALSE]
    /\ UNCHANGED <<g, tok, res, q, table, dbs>>

\* err := q.encryptModel(&heap[1]) on a query with key ID keyID
EncryptGraph(heap, keyID) ==
    /\ g.ok
    /\ ~obj.set
    /\ LET r == encryptModelAt(g, keyID, heap, 1)
       IN /\ obj' = [set |-> TRUE, cur |-> r.heap, orig |-> heap]
          /\ ret' = [op |-> "EncryptGraph", kind |-> "insert",
                     withDest |-> FALSE, out |-> r.out,
                     before |-> [a \in 1..MaxNodes |->
                                   IF r.heap[a] # heap[a] THEN 1 ELSE 0],
                     encFailed |-> r.out # PassOk]
    /\ UNCHANGED <<g, tok, res, q, table, dbs>>

InitGraph ==
    /\ g = GraphReg
    /\ tok = NoTok
    /\ res = NoRes
    /\ q = NoQuery
    /\ obj = NoObj
    /\ table = <<>>
    /\ ret = NoRet
    /\ dbs = <<>>

NextGraph ==
    \/ \E heap \in Graphs : DecryptGraph(heap)
    \/ \E heap \in Graphs, k \in {<<>>, Id9} :
          heap[1].bio \in {<<>>, TxtA} /\ EncryptGraph(heap, k)

SpecGraph == InitGraph /\ [][NextGraph]_vars

\* C29: each traversal pass terminates on every finite input and applies the
\* transform to each reachable tagged field at most once, inputs whose
\* pointers form a cycle or reach one record along two paths included.
C29_PassesTerminateOncePerField ==
    ret.op \in {"DecryptGraph", "EncryptGraph"} =>
        /\ ret.out.kind # "overflow"
        /\ \A a \in 1..MaxNodes : ret.before[a] <= 1

-----------------------------------------------------------------------------
(* Destinations that are neither records nor slices *)

\* a token of "a" under key "1"
GoodToken == Token(Id1, GoodNonceSeg, GoodCipherSeg)

\* the texts a scanned column holds
ScalarTexts == WalkTexts \cup StoredTexts \cup {GoodToken}

\* the destinations: a string, a *string and a **string for every text,
\* numbers, and pointers to pointers to records and to a slice
ScalarDests ==
    {StrV(s) : s \in ScalarTexts}
    \cup {PtrV(StrV(s)) : s \in ScalarTexts}
    \cup {PtrV(PtrV(StrV(s))) : s \in ScalarTexts}
    \cup {IntV(0), IntV(7), PtrV(IntV(7))}
    \cup {PtrV(PtrV(Account(e, p))) : e \in WalkTexts, p \in WalkTexts}
    \cup {PtrV(PtrV(SliceV(<<Account(TxtA, TxtA)>>)))}

\* q.Scan(ctx, dest) on a raw query: bun fills dest, then the decrypt pass
\* runs over it
NextScan == \E dest \in ScalarDests, n \in 1..MaxNonces : DecryptPass(dest, n)

SpecScan == InitWalk /\ [][NextScan]_vars

\* v, after at most one pointer dereference, is neither a record nor a slice
NeitherStructNorSlice(v) ==
    LET val == IF v.kind = "ptr" /\ v.sub # <<>> THEN v.sub[1] ELSE v
    IN val.kind \notin {"struct", "slice"}

=============================================================================
